---------------------------- MODULE Spec2Model ----------------------------
(***************************************************************************)
(* Model of the passivbot strategy kernel                                  *)
(* (src/src/passivbot/utils/funcs/njit.py): the order planners, the        *)
(* numerical inverters, the entry-grid builder and the tick-driven         *)
(* simulator njit_backtest.                                                *)
(*                                                                         *)
(* Numbers.  The kernel computes on 64-bit floats.  Here every float is a  *)
(* fixed-point decimal: the integer n stands for n / S.  Products and      *)
(* quotients are rounded to the nearest 1/S (ties away from zero), which   *)
(* plays the part of the float rounding; np.round keeps its half-to-even   *)
(* rule.  Timestamps are integers (milliseconds), as in the tick array.    *)
(***************************************************************************)
EXTENDS Integers, Sequences, FiniteSets, TLC

\* fixed-point scale: 1.0 is S; the kernel's safety rounding keeps 10
\* decimals, the model keeps 3
S == 10 ^ 3

Abs(x) == IF x < 0 THEN -x ELSE x
Min(a, b) == IF a <= b THEN a ELSE b
Max(a, b) == IF a >= b THEN a ELSE b
Sgn(x) == IF x < 0 THEN -1 ELSE 1

\* the largest divisor a quotient is computed against without rescaling
BigDen == 2 * 10 ^ 6

\* float product a * b
FMul(a, b) ==
    LET big == Max(Abs(a), Abs(b))
        small == Min(Abs(a), Abs(b))
    IN  Sgn(a) * Sgn(b) *
        ((big \div S) * small + ((big % S) * small + S \div 2) \div S)

\* float quotient a / b (b # 0); operands beyond BigDen are first scaled down
RECURSIVE FDiv(_, _)
FDiv(a, b) ==
    IF Abs(b) > BigDen
    THEN FDiv(Sgn(a) * (Abs(a) \div S), Sgn(b) * (Abs(b) \div S))
    ELSE LET n == Abs(a)
             d == Abs(b)
         IN  Sgn(a) * Sgn(b) * ((n \div d) * S + ((n % d) * S + d \div 2) \div d)

\* np.round(x): nearest integer of the float x, ties to even
NpRound(x) ==
    LET q == x \div S
        r == x % S
    IN  IF 2 * r < S THEN q
        ELSE IF 2 * r > S THEN q + 1
        ELSE IF q % 2 = 0 THEN q ELSE q + 1

\* np.ceil / np.floor of the float x, as integers
NpCeil(x) == -((-x) \div S)
NpFloor(x) == x \div S

round_up(n, step) == NpCeil(FDiv(n, step)) * step

round_dn(n, step) == NpFloor(FDiv(n, step)) * step

round_(n, step) == NpRound(FDiv(n, step)) * step

calc_diff(x, y) == FDiv(Abs(x - y), Abs(y))

\* no value of the model is NaN
nan_to_0(x) == x

calc_min_entry_qty(price, inverse, qty_step, min_qty, min_cost) ==
    IF inverse
    THEN min_qty
    ELSE Max(min_qty, round_up(IF price > 0 THEN FDiv(min_cost, price) ELSE 0, qty_step))

cost_to_qty(cost, price, inverse, c_mult) ==
    IF inverse
    THEN FDiv(FMul(cost, price), c_mult)
    ELSE IF price > 0 THEN FDiv(cost, price) ELSE 0

qty_to_cost(qty, price, inverse, c_mult) ==
    IF inverse
    THEN FMul(IF price > 0 THEN Abs(FDiv(qty, price)) ELSE 0, c_mult)
    ELSE Abs(FMul(qty, price))

calc_ema(alpha, alpha_, prev_ema, new_val) == FMul(prev_ema, alpha_) + FMul(new_val, alpha)

calc_long_pnl(entry_price, close_price, qty, inverse, c_mult) ==
    IF inverse
    THEN IF entry_price = 0 \/ close_price = 0
         THEN 0
         ELSE FMul(FMul(Abs(qty), c_mult), FDiv(S, entry_price) - FDiv(S, close_price))
    ELSE FMul(Abs(qty), close_price - entry_price)

calc_short_pnl(entry_price, close_price, qty, inverse, c_mult) ==
    IF inverse
    THEN IF entry_price = 0 \/ close_price = 0
         THEN 0
         ELSE FMul(FMul(Abs(qty), c_mult), FDiv(S, close_price) - FDiv(S, entry_price))
    ELSE FMul(Abs(qty), entry_price - close_price)

calc_equity(balance, long_psize, long_pprice, short_psize, short_pprice, last_price, inverse, c_mult) ==
    balance
    + (IF long_pprice # 0 /\ long_psize # 0
       THEN calc_long_pnl(long_pprice, last_price, long_psize, inverse, c_mult) ELSE 0)
    + (IF short_pprice # 0 /\ short_psize # 0
       THEN calc_short_pnl(short_pprice, last_price, short_psize, inverse, c_mult) ELSE 0)

calc_upnl(long_psize, long_pprice, short_psize, short_pprice, last_price, inverse, c_mult) ==
    calc_long_pnl(long_pprice, last_price, long_psize, inverse, c_mult)
    + calc_short_pnl(short_pprice, last_price, short_psize, inverse, c_mult)

\* a mutation of calc_new_psize_pprice: a position brought to zero keeps its price
calc_new_psize_pprice_kept(psize, pprice, qty, price, qty_step) ==
    IF qty = 0 THEN <<psize, pprice>>
    ELSE LET new_psize == round_(psize + qty, qty_step)
         IN  IF new_psize = 0 THEN <<0, pprice>>
             ELSE <<new_psize,
                    FDiv(FMul(nan_to_0(pprice), psize) + FMul(price, qty), new_psize)>>

\* returns <<new_psize, new_pprice>>.  The weighted mean
\* pprice * (psize / new_psize) + price * (qty / new_psize) is computed over the
\* common denominator, which keeps the fixed-point result within 1/S of the float's
calc_new_psize_pprice(psize, pprice, qty, price, qty_step) ==
    IF qty = 0 THEN <<psize, pprice>>
    ELSE LET new_psize == round_(psize + qty, qty_step)
         IN  IF new_psize = 0 THEN <<0, 0>>
             ELSE <<new_psize,
                    FDiv(FMul(nan_to_0(pprice), psize) + FMul(price, qty), new_psize)>>

calc_wallet_exposure_if_filled(balance, psize, pprice, qty, price, inverse, c_mult, qty_step) ==
    LET Exposure(pp) == FDiv(qty_to_cost(pp[1], pp[2], inverse, c_mult), balance)
    IN  Exposure(calc_new_psize_pprice(round_(Abs(psize), qty_step), pprice,
                                       round_(Abs(qty), qty_step), price, qty_step))

calc_bankruptcy_price(balance, long_psize, long_pprice, short_psize, short_pprice, inverse, c_mult) ==
    LET lpp == nan_to_0(long_pprice)
        spp == nan_to_0(short_pprice)
        lps == FMul(long_psize, c_mult)
        abs_short_psize == FMul(Abs(short_psize), c_mult)
    IN  IF inverse
        THEN LET short_cost == IF spp > 0 THEN FDiv(abs_short_psize, spp) ELSE 0
                 long_cost == IF lpp > 0 THEN FDiv(lps, lpp) ELSE 0
                 denominator == short_cost - long_cost - balance
             IN  IF denominator = 0 THEN 0
                 ELSE Max(0, FDiv(abs_short_psize - lps, denominator))
        ELSE LET denominator == lps - abs_short_psize
             IN  IF denominator = 0 THEN 0
                 ELSE Max(0, FDiv(-balance + FMul(lps, lpp) - FMul(abs_short_psize, spp),
                                  denominator))

\* np.linspace(start, stop, num) as a sequence: start + i * step, the last point stop
linspace(start, stop, num) ==
    LET step == IF num > 1 THEN FDiv(stop - start, (num - 1) * S) ELSE 0
    IN  [i \in 1..num |-> IF i = num /\ num > 1 THEN stop ELSE start + (i - 1) * step]

RECURSIVE IntPow(_, _)
IntPow(b, i) == IF i = 0 THEN 1 ELSE b * IntPow(b, i - 1)

\* basespace(start, end, base, n); base is an integer >= 1 here, so base ** i is exact
basespace(start, end, base, n) ==
    IF base = 1 THEN linspace(start, end, n)
    ELSE LET a(i) == IntPow(base, i - 1) * S
         IN  [i \in 1..n |-> FMul(FDiv(a(i) - a(1), a(n) - a(1)), end - start) + start]

calc_initial_entry_qty(balance, initial_entry_price, inverse, qty_step, min_qty, min_cost, c_mult, wallet_exposure_limit, initial_qty_pct) ==
    Max(calc_min_entry_qty(initial_entry_price, inverse, qty_step, min_qty, min_cost),
        round_(cost_to_qty(FMul(FMul(balance, wallet_exposure_limit), initial_qty_pct),
                           initial_entry_price, inverse, c_mult),
               qty_step))

\* psize * (num / den): the quotient is taken first, so that a large
\* eprice_pprice_diff (a large weighting) stays within the integers
calc_long_entry_qty(psize, pprice, entry_price, eprice_pprice_diff) ==
    -FMul(psize, FDiv(FMul(entry_price, eprice_pprice_diff) + entry_price - pprice,
                      FMul(entry_price, eprice_pprice_diff)))

calc_short_entry_qty(psize, pprice, entry_price, eprice_pprice_diff) ==
    -FMul(psize, FDiv(FMul(entry_price, eprice_pprice_diff - S) + pprice,
                      FMul(entry_price, eprice_pprice_diff)))

\* Lagrange interpolation through the two points (xs[1], ys[1]), (xs[2], ys[2])
interpolate(x, xs, ys) ==
    FMul(FDiv(x - xs[2], xs[1] - xs[2]), ys[1])
    + FMul(FDiv(x - xs[1], xs[2] - xs[1]), ys[2])

Last(s) == s[Len(s)]
Last2(s) == <<s[Len(s) - 1], s[Len(s)]>>
SetLast(s, v) == [s EXCEPT ![Len(s)] = v]

\* sorted([(e, g) for e, g in zip(evals, guesses)])[0][1]
BestGuess(evals, guesses) ==
    LET n == Min(Len(evals), Len(guesses))
        i == CHOOSE i \in 1..n :
                \A j \in 1..n :
                    \/ evals[i] < evals[j]
                    \/ evals[i] = evals[j] /\ guesses[i] <= guesses[j]
    IN  guesses[i]

\* the value a close of `guess` leaves: exposure after the close
CloseVal(is_long, balance, abs_psize, pprice, close_price, guess, inverse, c_mult) ==
    FDiv(qty_to_cost(abs_psize - guess, pprice, inverse, c_mult),
         balance + (IF is_long
                    THEN calc_long_pnl(pprice, close_price, guess, inverse, c_mult)
                    ELSE calc_short_pnl(pprice, close_price, guess, inverse, c_mult)))

EvalErr(val, wallet_exposure_target) ==
    FDiv(Abs(val - wallet_exposure_target), wallet_exposure_target)

\* a solver state st = [g, v, e] holds the guesses, vals and evals lists
SolverStart(g0, v0, g1, v1, wallet_exposure_target) ==
    [g |-> <<g0, g1>>, v |-> <<v0, v1>>,
     e |-> <<EvalErr(v0, wallet_exposure_target), EvalErr(v1, wallet_exposure_target)>>]
SolverPush(st, g, v, wallet_exposure_target) ==
    [g |-> Append(st.g, g), v |-> Append(st.v, v),
     e |-> Append(st.e, EvalErr(v, wallet_exposure_target))]
\* guesses[-1] = g; vals[-1] = v
SolverSetLast(st, g, v) == [g |-> SetLast(st.g, g), v |-> SetLast(st.v, v), e |-> st.e]

\* the `for _ in range(15)` loop of the two close-qty solvers
RECURSIVE CloseQtyLoop(_, _, _, _, _, _, _, _, _, _, _)
CloseQtyLoop(n, st, is_long, balance, abs_psize, pprice, wallet_exposure_target, close_price, inverse, qty_step, c_mult) ==
    LET Val(g) == CloseVal(is_long, balance, abs_psize, pprice, close_price, g, inverse, c_mult)
        tie == Last(st.g) = st.g[Len(st.g) - 1] \/ Last(st.v) = st.v[Len(st.v) - 1]
        Bump(g2) == IF is_long
                    THEN Min(abs_psize, Abs(round_(Max(g2 * 2, g2 + qty_step * 10), qty_step)))
                    ELSE Min(abs_psize, Abs(round_(Max(FMul(g2, 1100), g2 + qty_step), qty_step)))
        Untie(g) == SolverSetLast(st, g, Val(g))
        \* interpolate divides by zero on equal vals; the solver then takes half the position
        NewGuess(s) == IF Last(s.v) = s.v[Len(s.v) - 1]
                       THEN round_(FDiv(abs_psize, 2 * S), qty_step)
                       ELSE interpolate(wallet_exposure_target, Last2(s.v), Last2(s.g))
        Guess(s) == Min(abs_psize, Max(0, round_(NewGuess(s), qty_step)))
        Push(s, g) == SolverPush(s, g, Val(g), wallet_exposure_target)
        Extend(s) == Push(s, Guess(s))
        Continue(nst) ==
            IF Last(nst.e) < 40 THEN nst
            ELSE CloseQtyLoop(n - 1, nst, is_long, balance, abs_psize, pprice,
                              wallet_exposure_target, close_price, inverse, qty_step, c_mult)
    IN  IF n = 0 THEN st
        ELSE Continue(Extend(IF tie THEN Untie(Bump(st.g[Len(st.g) - 1])) ELSE st))

find_close_qty_bringing_wallet_exposure_to_target(is_long, balance, psize, pprice, wallet_exposure_target, close_price, inverse, qty_step, c_mult) ==
    LET wallet_exposure == FDiv(qty_to_cost(psize, pprice, inverse, c_mult), balance)
        lim == IF is_long THEN psize ELSE Abs(psize)
        Val(g) == CloseVal(is_long, balance, Abs(psize), pprice, close_price, g, inverse, c_mult)
        Clamp(x) == Min(lim, Max(0, round_(x, qty_step)))
        Start(g0, g1) == SolverStart(g0, Val(g0), g1, Val(g1), wallet_exposure_target)
        Second(g0, g1) ==
            Start(g0, IF g1 = g0 THEN Clamp(Min(FMul(g1, 800), g1 - qty_step)) ELSE g1)
        First(g0) == Second(g0, Clamp(Max(FMul(g0, 1200), g0 + qty_step)))
        Best(st) == BestGuess(st.e, st.g)
    IN  IF wallet_exposure <= FMul(wallet_exposure_target, 1001) THEN 0
        ELSE Best(CloseQtyLoop(15,
                               First(Clamp(FMul(lim, FDiv(wallet_exposure_target,
                                                          wallet_exposure)))),
                               is_long, balance, lim, pprice, wallet_exposure_target,
                               close_price, inverse, qty_step, c_mult))

find_long_close_qty_bringing_wallet_exposure_to_target(balance, psize, pprice, wallet_exposure_target, close_price, inverse, qty_step, c_mult) ==
    find_close_qty_bringing_wallet_exposure_to_target(TRUE, balance, psize, pprice,
        wallet_exposure_target, close_price, inverse, qty_step, c_mult)

find_short_close_qty_bringing_wallet_exposure_to_target(balance, psize, pprice, wallet_exposure_target, close_price, inverse, qty_step, c_mult) ==
    find_close_qty_bringing_wallet_exposure_to_target(FALSE, balance, psize, pprice,
        wallet_exposure_target, close_price, inverse, qty_step, c_mult)

\* the `for _ in range(15)` loop of the entry-qty solver
RECURSIVE EntryQtyLoop(_, _, _, _, _, _, _, _, _, _)
EntryQtyLoop(n, st, balance, psize, pprice, wallet_exposure_target, entry_price, inverse, qty_step, c_mult) ==
    LET Val(q) == calc_wallet_exposure_if_filled(balance, psize, pprice, q, entry_price,
                                                 inverse, c_mult, qty_step)
        tie == Last(st.g) = st.g[Len(st.g) - 1]
        Bump(g2) == Abs(round_(Max(FMul(g2, 1100), g2 + qty_step), qty_step))
        Untie(g) == SolverSetLast(st, g, Val(g))
        Guess(s) == Max(0, round_(interpolate(wallet_exposure_target, Last2(s.v), Last2(s.g)),
                                  qty_step))
        Push(s, g) == SolverPush(s, g, Val(g), wallet_exposure_target)
        Extend(s) == Push(s, Guess(s))
        Continue(nst) ==
            IF Last(nst.e) < 40 THEN nst
            ELSE EntryQtyLoop(n - 1, nst, balance, psize, pprice, wallet_exposure_target,
                              entry_price, inverse, qty_step, c_mult)
    IN  IF n = 0 THEN st
        ELSE Continue(Extend(IF tie THEN Untie(Bump(st.g[Len(st.g) - 1])) ELSE st))

find_entry_qty_bringing_wallet_exposure_to_target(balance, psize, pprice, wallet_exposure_target, entry_price, inverse, qty_step, c_mult) ==
    LET wallet_exposure == FDiv(qty_to_cost(psize, pprice, inverse, c_mult), balance)
        Val(q) == calc_wallet_exposure_if_filled(balance, psize, pprice, q, entry_price,
                                                 inverse, c_mult, qty_step)
        Start(g0, g1) == SolverStart(g0, Val(g0), g1, Val(g1), wallet_exposure_target)
        First(g0) == Start(g0, Max(0, round_(Max(FMul(g0, 1200), g0 + qty_step), qty_step)))
        Best(st) == BestGuess(st.e, st.g)
    IN  IF wallet_exposure >= FMul(wallet_exposure_target, 990) THEN 0
        ELSE Best(EntryQtyLoop(15,
                               First(round_(FDiv(FMul(Abs(psize), wallet_exposure_target),
                                                 wallet_exposure), qty_step)),
                               balance, psize, pprice, wallet_exposure_target, entry_price,
                               inverse, qty_step, c_mult))

\* a mutation of EmptyOrder: the order that stands for no order sells short above the market
EmptyOrderSold == <<-1000, 20500, "short_ientry">>

\* an order is <<qty, price, tag>>
EmptyOrder == <<0, 0, "">>

\* a mutation of RoundedKept: the rounded prices are kept whatever the quote
RoundedAll(raw, price_step, up, bound) ==
    [i \in 1..Len(raw) |-> IF up THEN round_up(raw[i], price_step)
                           ELSE round_dn(raw[i], price_step)]

\* the prices of `raw`, rounded up (to at least `bound`) or down (to at most `bound`), in
\* their order
RoundedKept(raw, price_step, up, bound) ==
    LET r(i) == IF up THEN round_up(raw[i], price_step) ELSE round_dn(raw[i], price_step)
        ok(i) == IF up THEN r(i) >= bound ELSE r(i) <= bound
        Pick(kept) == [j \in 1..Cardinality(kept) |->
                          r(CHOOSE i \in kept : Cardinality({h \in kept : h <= i}) = j)]
    IN  Pick({i \in 1..Len(raw) : ok(i)})

\* `for price in close_prices[:-1]` of calc_long_close_grid; st = [psize_, closes]
RECURSIVE LongCloseLoop(_, _, _, _, _, _, _, _)
LongCloseLoop(i, st, close_prices, default_close_qty, inverse, qty_step, min_qty, min_cost) ==
    LET Close(close_qty) ==
            [psize_ |-> round_(st.psize_ - close_qty, qty_step),
             closes |-> Append(st.closes, <<-close_qty, close_prices[i], "long_nclose">>)]
        Body(min_close_qty) ==
            IF st.psize_ < min_close_qty THEN st
            ELSE LongCloseLoop(i + 1,
                               Close(Min(st.psize_, Max(min_close_qty, default_close_qty))),
                               close_prices, default_close_qty, inverse, qty_step, min_qty,
                               min_cost)
    IN  IF i > Len(close_prices) - 1 THEN st
        ELSE Body(calc_min_entry_qty(close_prices[i], inverse, qty_step, min_qty, min_cost))
\* a mutation of calc_long_close_grid: one order at the ask, for twice the position
calc_long_close_grid_twice(balance, psize, pprice, lowest_ask, ema_band_upper, inverse, qty_step, price_step, min_qty, min_cost, c_mult, exposure_limit, min_markup, markup_range, n_close_orders, auto_unstuck_exposure_threshold, auto_unstuck_ema_dist) ==
    IF psize = 0 THEN <<<<0, 0, "">>>> ELSE <<<<-2 * psize, lowest_ask, "long_nclose">>>>

calc_long_close_grid(balance, psize, pprice, lowest_ask, ema_band_upper, inverse, qty_step, price_step, min_qty, min_cost, c_mult, exposure_limit, min_markup, markup_range, n_close_orders, auto_unstuck_exposure_threshold, auto_unstuck_ema_dist) ==
    LET minm == FMul(pprice, S + min_markup)
        exposure == FDiv(qty_to_cost(psize, pprice, inverse, c_mult), balance)
        threshold == FMul(exposure_limit, S - auto_unstuck_exposure_threshold)
        unstuck_close_price ==
            Max(lowest_ask, round_up(FMul(ema_band_upper, S + auto_unstuck_ema_dist), price_step))
        MinQty(price) == calc_min_entry_qty(price, inverse, qty_step, min_qty, min_cost)
        \* the code after the loop over close_prices[:-1]
        AfterLoop(close_prices, st) ==
            IF st.psize_ >= MinQty(Last(close_prices))
            THEN Append(st.closes, <<-st.psize_, Last(close_prices), "long_nclose">>)
            ELSE IF Len(st.closes) > 0
            THEN SetLast(st.closes,
                         <<-round_(Abs(Last(st.closes)[1]) + st.psize_, qty_step),
                           Last(st.closes)[2], Last(st.closes)[3]>>)
            ELSE st.closes
        \* the code from `if len(close_prices) == 1` on
        Ladder(close_prices, psize_, closes) ==
            IF Len(close_prices) = 1
            THEN IF psize_ >= MinQty(close_prices[1])
                 THEN Append(closes, <<-psize_, close_prices[1], "long_nclose">>)
                 ELSE closes
            ELSE AfterLoop(close_prices,
                           LongCloseLoop(1, [psize_ |-> psize_, closes |-> closes], close_prices,
                                         round_dn(FDiv(psize_, Len(close_prices) * S), qty_step),
                                         inverse, qty_step, min_qty, min_cost))
        Unstuck(close_prices, unstuck_close_qty, min_entry_qty, psize_) ==
            IF unstuck_close_qty >= min_entry_qty
            THEN IF psize_ < min_entry_qty
                 THEN \* close whole pos; include leftovers
                      << <<-round_dn(psize, qty_step), unstuck_close_price,
                           "long_unstuck_close">> >>
                 ELSE Ladder(close_prices, psize_,
                             << <<-unstuck_close_qty, unstuck_close_price,
                                  "long_unstuck_close">> >>)
            ELSE Ladder(close_prices, round_dn(psize, qty_step), << >>)
        UnstuckQty(close_prices, unstuck_close_qty) ==
            Unstuck(close_prices, unstuck_close_qty, MinQty(unstuck_close_price),
                    round_(round_dn(psize, qty_step) - unstuck_close_qty, qty_step))
        Plan(close_prices) ==
            IF Len(close_prices) = 0 THEN << <<-psize, lowest_ask, "long_nclose">> >>
            ELSE IF /\ auto_unstuck_exposure_threshold # 0
                    /\ exposure > threshold
                    /\ unstuck_close_price < close_prices[1]
            THEN UnstuckQty(close_prices,
                            find_long_close_qty_bringing_wallet_exposure_to_target(
                                balance, round_dn(psize, qty_step), pprice,
                                FMul(threshold, 1010), unstuck_close_price, inverse, qty_step,
                                c_mult))
            ELSE Ladder(close_prices, round_dn(psize, qty_step), << >>)
    IN  IF psize = 0 THEN <<EmptyOrder>>
        ELSE Plan(RoundedKept(linspace(minm, FMul(pprice, S + min_markup + markup_range),
                                       n_close_orders),
                              price_step, TRUE, lowest_ask))

Max3(a, b, c) == Max(a, Max(b, c))

\* `for close_price in close_prices` of calc_short_close_grid; st = [remaining, closes]
RECURSIVE ShortCloseLoop(_, _, _, _, _, _, _, _, _, _, _)
ShortCloseLoop(i, st, close_prices, default_qty, min_close_qty, balance, inverse, c_mult, wallet_exposure_limit, initial_qty_pct, qty_step) ==
    LET Close(close_qty) ==
            [remaining |-> round_(st.remaining - close_qty, qty_step),
             closes |-> Append(st.closes, <<close_qty, close_prices[i], "short_nclose">>)]
    IN  IF i > Len(close_prices) THEN st
        ELSE IF st.remaining
                < Max3(min_close_qty,
                       FMul(FMul(FMul(cost_to_qty(balance, close_prices[i], inverse, c_mult),
                                      wallet_exposure_limit), initial_qty_pct), 500),
                       FMul(default_qty, 500))
        THEN st
        ELSE ShortCloseLoop(i + 1, Close(Min(st.remaining, Max(default_qty, min_close_qty))),
                            close_prices, default_qty, min_close_qty, balance, inverse, c_mult,
                            wallet_exposure_limit, initial_qty_pct, qty_step)

\* breakeven markup of the short close planner: 0.0021 on spot, 0.00041 on futures,
\* in units of 1/100000 (finer than 1/S)
breakeven_markup(spot) == IF spot THEN 210 ELSE 41

calc_short_close_grid(balance, short_psize, short_pprice, highest_bid, ema_band_lower, spot, inverse, qty_step, price_step, min_qty, min_cost, c_mult, wallet_exposure_limit, initial_qty_pct, min_markup, markup_range, n_close_orders, auto_unstuck_wallet_exposure_threshold, auto_unstuck_ema_dist) ==
    LET minm == FMul(short_pprice, S - min_markup)
        close_price_be ==
            Min(highest_bid,
                round_dn(short_pprice - (short_pprice * breakeven_markup(spot) + 50000) \div 100000,
                         price_step))
        wallet_exposure == FDiv(qty_to_cost(short_psize, short_pprice, inverse, c_mult), balance)
        threshold == FMul(wallet_exposure_limit, S - auto_unstuck_wallet_exposure_threshold)
        auto_unstuck_price ==
            Min(highest_bid, round_dn(FMul(ema_band_lower, S - auto_unstuck_ema_dist), price_step))
        MinQty(price) == calc_min_entry_qty(price, inverse, qty_step, min_qty, min_cost)
        \* the code after the loop over close_prices
        AfterLoop(close_prices, abs_short_psize, st) ==
            IF st.remaining # 0
            THEN IF Len(st.closes) > 0
                 THEN SetLast(st.closes,
                              <<round_(Last(st.closes)[1] + st.remaining, qty_step),
                                Last(st.closes)[2], Last(st.closes)[3]>>)
                 ELSE << <<abs_short_psize, close_prices[1], "short_nclose">> >>
            ELSE st.closes
        Loop(close_prices, abs_short_psize, short_closes, min_close_qty, default_qty) ==
            IF default_qty = 0
            THEN << <<round_(abs_short_psize, qty_step), close_prices[1], "short_nclose">> >>
            ELSE AfterLoop(close_prices, abs_short_psize,
                           ShortCloseLoop(1, [remaining |-> round_(abs_short_psize, qty_step),
                                              closes |-> short_closes],
                                          close_prices, Max(min_close_qty, default_qty),
                                          min_close_qty, balance, inverse, c_mult,
                                          wallet_exposure_limit, initial_qty_pct, qty_step))
        \* the code from `min_close_qty = ...` on
        Ladder(close_prices, abs_short_psize, short_closes) ==
            Loop(close_prices, abs_short_psize, short_closes, MinQty(close_prices[1]),
                 round_dn(FDiv(abs_short_psize, Len(close_prices) * S), qty_step))
        Unstuck(close_prices, auto_unstuck_qty) ==
            IF auto_unstuck_qty >= MinQty(auto_unstuck_price)
            THEN Ladder(close_prices,
                        Max(0, round_(Abs(short_psize) - auto_unstuck_qty, qty_step)),
                        << <<auto_unstuck_qty, auto_unstuck_price, "short_unstuck_close">> >>)
            ELSE Ladder(close_prices, Abs(short_psize), << >>)
        Plan(close_prices) ==
            IF Len(close_prices) = 0
            THEN << <<round_(Abs(short_psize), qty_step), highest_bid, "short_nclose">> >>
            ELSE IF Len(close_prices) = 1
            THEN << <<round_(Abs(short_psize), qty_step), close_prices[1], "short_nclose">> >>
            ELSE IF /\ auto_unstuck_wallet_exposure_threshold # 0
                    /\ wallet_exposure > threshold
                    /\ auto_unstuck_price > close_prices[1]
            THEN Unstuck(close_prices,
                         find_short_close_qty_bringing_wallet_exposure_to_target(
                             balance, short_psize, short_pprice, FMul(threshold, 1010),
                             auto_unstuck_price, inverse, qty_step, c_mult))
            ELSE Ladder(close_prices, Abs(short_psize), << >>)
    IN  IF short_psize = 0 THEN <<EmptyOrder>>
        ELSE IF spot /\ round_dn(Abs(short_psize), qty_step) < MinQty(minm)
        THEN <<EmptyOrder>>
        ELSE IF Abs(short_psize)
                < FMul(FMul(FMul(cost_to_qty(balance, short_pprice, inverse, c_mult),
                                 wallet_exposure_limit), initial_qty_pct), 500)
        THEN \* close entire pos at breakeven or better if psize < initial_qty * 0.5
             << <<round_(Abs(short_psize), qty_step), close_price_be, "short_nclose">> >>
        ELSE Plan(RoundedKept(linspace(minm, FMul(short_pprice, S - min_markup - markup_range),
                                       n_close_orders),
                              price_step, FALSE, highest_bid))

\* a grid row is <<qty, price, psize, pprice, wallet_exposure>>
GridRow(qty, price, pp, balance, inverse, c_mult) ==
    <<qty, price, pp[1], pp[2], FDiv(qty_to_cost(pp[1], pp[2], inverse, c_mult), balance)>>

\* rows 2..n of eval_long_entry_grid / eval_short_entry_grid, appended to `grid`
RECURSIVE EvalGridLoop(_, _, _, _, _, _, _, _, _, _, _, _)
EvalGridLoop(is_long, i, grid, prices, balance, inverse, qty_step, min_qty, min_cost, c_mult, eprice_pprice_diff, weighting) ==
    LET prev == grid[i - 1]
        adjusted_eprice_pprice_diff == FMul(eprice_pprice_diff, S + FMul(prev[5], weighting))
        Row(qty) ==
            GridRow(qty, prices[i],
                    calc_new_psize_pprice(prev[3], prev[4], qty, prices[i], qty_step),
                    balance, inverse, c_mult)
        Sized(qty) ==
            Row(IF (IF is_long THEN qty ELSE -qty)
                   < calc_min_entry_qty(prices[i], inverse, qty_step, min_qty, min_cost)
                THEN 0 ELSE qty)
    IN  IF i > Len(prices) THEN grid
        ELSE EvalGridLoop(is_long, i + 1,
                          Append(grid,
                                 Sized(round_(IF is_long
                                              THEN calc_long_entry_qty(
                                                       prev[3], prev[4], prices[i],
                                                       adjusted_eprice_pprice_diff)
                                              ELSE calc_short_entry_qty(
                                                       prev[3], prev[4], prices[i],
                                                       adjusted_eprice_pprice_diff),
                                              qty_step))),
                          prices, balance, inverse, qty_step, min_qty, min_cost, c_mult,
                          eprice_pprice_diff, weighting)

\* eval_long_entry_grid and eval_short_entry_grid (eprices and prev_pprice are None at
\* every call of the kernel)
eval_entry_grid(is_long, balance, initial_entry_price, inverse, qty_step, price_step, min_qty, min_cost, c_mult, grid_span, wallet_exposure_limit, max_n_entry_orders, initial_qty_pct, eprice_pprice_diff, weighting, eprice_exp_base) ==
    LET Prices(raw) == [i \in 1..max_n_entry_orders |->
                           IF is_long THEN round_dn(raw[i], price_step)
                           ELSE round_up(raw[i], price_step)]
        Row0(qty, price) == GridRow(qty, price, <<qty, price>>, balance, inverse, c_mult)
        Qty0(q) == IF is_long THEN q ELSE -q
        Build(prices) ==
            EvalGridLoop(is_long, 2,
                         <<Row0(Qty0(Max(calc_min_entry_qty(prices[1], inverse, qty_step,
                                                            min_qty, min_cost),
                                         round_(cost_to_qty(FMul(FMul(balance,
                                                                      wallet_exposure_limit),
                                                                 initial_qty_pct),
                                                            initial_entry_price, inverse,
                                                            c_mult),
                                                qty_step))),
                                prices[1])>>,
                         prices, balance, inverse, qty_step, min_qty, min_cost, c_mult,
                         eprice_pprice_diff, weighting)
    IN  Build(Prices(basespace(initial_entry_price,
                               FMul(initial_entry_price,
                                    IF is_long THEN S - grid_span ELSE S + grid_span),
                               eprice_exp_base, max_n_entry_orders)))

eval_long_entry_grid(balance, initial_entry_price, inverse, qty_step, price_step, min_qty, min_cost, c_mult, grid_span, wallet_exposure_limit, max_n_entry_orders, initial_qty_pct, eprice_pprice_diff, weighting, eprice_exp_base) ==
    eval_entry_grid(TRUE, balance, initial_entry_price, inverse, qty_step, price_step, min_qty,
                    min_cost, c_mult, grid_span, wallet_exposure_limit, max_n_entry_orders,
                    initial_qty_pct, eprice_pprice_diff, weighting, eprice_exp_base)

eval_short_entry_grid(balance, initial_entry_price, inverse, qty_step, price_step, min_qty, min_cost, c_mult, grid_span, wallet_exposure_limit, max_n_entry_orders, initial_qty_pct, eprice_pprice_diff, weighting, eprice_exp_base) ==
    eval_entry_grid(FALSE, balance, initial_entry_price, inverse, qty_step, price_step, min_qty,
                    min_cost, c_mult, grid_span, wallet_exposure_limit, max_n_entry_orders,
                    initial_qty_pct, eprice_pprice_diff, weighting, eprice_exp_base)

max_n_iters == 20

\* error_tolerance = 0.01
error_tolerance == 10

\* The state of the weighting solver: i counts the iterations of its search loop,
\* too_low and too_high are (guess, val) pairs, best is best_guess = (diff, guess, val)
\* the arguments of find_eprice_pprice_diff_wallet_exposure_weighting, as one record
WeightingArgs(is_long, balance, initial_entry_price, inverse, qty_step, price_step, min_qty, min_cost, c_mult, grid_span, wallet_exposure_limit, max_n_entry_orders, initial_qty_pct, eprice_pprice_diff, eprice_exp_base) ==
    [is_long |-> is_long, balance |-> balance, initial_entry_price |-> initial_entry_price,
     inverse |-> inverse, qty_step |-> qty_step, price_step |-> price_step,
     min_qty |-> min_qty, min_cost |-> min_cost, c_mult |-> c_mult, grid_span |-> grid_span,
     wallet_exposure_limit |-> wallet_exposure_limit,
     max_n_entry_orders |-> max_n_entry_orders, initial_qty_pct |-> initial_qty_pct,
     eprice_pprice_diff |-> eprice_pprice_diff, eprice_exp_base |-> eprice_exp_base]

\* eval_(guess_) of the weighting solver: the wallet exposure of the last row of the grid
\* built with the weighting guess_; `a` holds the solver's arguments
WeightingEval(a, guess_) ==
    Last(eval_entry_grid(a.is_long, a.balance, a.initial_entry_price, a.inverse, a.qty_step,
                         a.price_step, a.min_qty, a.min_cost, a.c_mult, a.grid_span,
                         a.wallet_exposure_limit, a.max_n_entry_orders, a.initial_qty_pct,
                         a.eprice_pprice_diff, guess_, a.eprice_exp_base))[5]

\* the solver's locals before its first eval_: guess = 0.0
WeightingStart ==
    [stage |-> "low", done |-> FALSE, i |-> 0, guess |-> 0, val |-> 0, old_guess |-> 0,
     too_low |-> <<0, 0>>, too_high |-> <<0, 0>>, best |-> <<0, 0, 0>>]

\* `return guess` before the search loop
WeightingReturn(st, val) ==
    [st EXCEPT !.done = TRUE, !.val = val, !.best = <<0, st.guess, val>>]

\* a mutation of WeightingCheck: the search gives up when the guess stalls only, never
\* for the number of its iterations
WeightingCheckUncounted(st, wallet_exposure_limit) ==
    LET diff == FDiv(Abs(st.val - wallet_exposure_limit), wallet_exposure_limit)
        Checked(best) ==
            IF diff < error_tolerance THEN [st EXCEPT !.done = TRUE, !.i = st.i + 1, !.best = best]
            ELSE IF FDiv(Abs(st.old_guess - st.guess), st.guess) < FMul(error_tolerance, 100)
            THEN [st EXCEPT !.done = TRUE, !.i = st.i + 1, !.best = best]
            ELSE [st EXCEPT !.i = st.i + 1, !.best = best, !.old_guess = st.guess,
                            !.guess = FDiv(st.too_high[1] + st.too_low[1], 2 * S)]
    IN  Checked(IF diff < st.best[1] THEN <<diff, st.guess, st.val>> ELSE st.best)

\* the head of the `while True` loop, up to its next `guess = ...` or its return
WeightingCheck(st, wallet_exposure_limit) ==
    LET diff == FDiv(Abs(st.val - wallet_exposure_limit), wallet_exposure_limit)
        Checked(best) ==
            IF diff < error_tolerance THEN [st EXCEPT !.done = TRUE, !.i = st.i + 1, !.best = best]
            ELSE IF st.i + 1 >= max_n_iters
                    \/ FDiv(Abs(st.old_guess - st.guess), st.guess) < FMul(error_tolerance, 100)
            THEN [st EXCEPT !.done = TRUE, !.i = st.i + 1, !.best = best]
            ELSE [st EXCEPT !.i = st.i + 1, !.best = best, !.old_guess = st.guess,
                            !.guess = FDiv(st.too_high[1] + st.too_low[1], 2 * S)]
    IN  Checked(IF diff < st.best[1] THEN <<diff, st.guess, st.val>> ELSE st.best)

\* `if val < wallet_exposure_limit: too_high = (guess, val) else: too_low = (guess, val)`
WeightingBracket(st, val, wallet_exposure_limit) ==
    [st EXCEPT !.val = val,
               !.too_high = IF val < wallet_exposure_limit THEN <<st.guess, val>> ELSE @,
               !.too_low = IF val < wallet_exposure_limit THEN @ ELSE <<st.guess, val>>]

\* the statements of the solver between one val = eval_(guess) and the next
WeightingNext(st, val, wallet_exposure_limit) ==
    CASE st.stage = "low" ->
            IF val < wallet_exposure_limit THEN WeightingReturn(st, val)
            ELSE [st EXCEPT !.stage = "high", !.too_low = <<0, val>>, !.guess = 1000 * S]
      [] st.stage = "high" ->
            IF val > wallet_exposure_limit
            THEN IF st.guess >= 100000 * S THEN WeightingReturn(st, val)
                 ELSE [st EXCEPT !.guess = st.guess * 10]
            ELSE [st EXCEPT !.stage = "first", !.too_high = <<st.guess, val>>,
                            !.guess = interpolate(wallet_exposure_limit,
                                                  <<st.too_low[1], st.guess>>,
                                                  <<st.too_low[2], val>>)]
      [] st.stage = "first" ->
            WeightingCheck([WeightingBracket(st, val, wallet_exposure_limit)
                                EXCEPT !.stage = "loop",
                                       !.best = <<FDiv(Abs(val - wallet_exposure_limit),
                                                       wallet_exposure_limit), st.guess, val>>],
                           wallet_exposure_limit)
      [] OTHER ->
            WeightingCheck(WeightingBracket(st, val, wallet_exposure_limit),
                           wallet_exposure_limit)

\* the state the weighting solver returns in; i counts the iterations of its search loop
RECURSIVE WeightingSearch(_, _)
WeightingSearch(st, a) ==
    IF st.done THEN st
    ELSE WeightingSearch(WeightingNext(st, WeightingEval(a, st.guess),
                                       a.wallet_exposure_limit), a)

find_eprice_pprice_diff_wallet_exposure_weighting(is_long, balance, initial_entry_price, inverse, qty_step, price_step, min_qty, min_cost, c_mult, grid_span, wallet_exposure_limit, max_n_entry_orders, initial_qty_pct, eprice_pprice_diff, eprice_exp_base) ==
    WeightingSearch(WeightingStart,
                    WeightingArgs(is_long, balance, initial_entry_price, inverse, qty_step,
                                  price_step, min_qty, min_cost, c_mult, grid_span,
                                  wallet_exposure_limit, max_n_entry_orders, initial_qty_pct,
                                  eprice_pprice_diff, eprice_exp_base)).best[2]

\* `if secondary_allocation <= 0.05: secondary_allocation = 0.0`
SecondaryAllocation(secondary_allocation) ==
    IF secondary_allocation <= 50 THEN 0 ELSE secondary_allocation

\* calc_whole_long_entry_grid / calc_whole_short_entry_grid raise
\* Exception("secondary_allocation cannot be >= 1.0")
calc_whole_entry_grid_raises(secondary_allocation) ==
    ~(secondary_allocation <= 50) /\ secondary_allocation >= S

\* the row the whole grid gets appended when secondary_allocation > 0.0; last = grid[-1]
SecondaryNode(is_long, balance, last, inverse, qty_step, price_step, c_mult, wallet_exposure_limit, secondary_pprice_diff) ==
    LET Row(qty, entry_price, pp) ==
            <<qty, entry_price, pp[1], pp[2],
              FDiv(qty_to_cost(pp[1], pp[2], inverse, c_mult), balance)>>
        Sized(qty, entry_price) ==
            Row(qty, entry_price,
                calc_new_psize_pprice(last[3], last[4], qty, entry_price, qty_step))
        Priced(entry_price) ==
            Sized((IF is_long THEN 1 ELSE -1)
                      * find_entry_qty_bringing_wallet_exposure_to_target(
                            balance, last[3], last[4], wallet_exposure_limit, entry_price,
                            inverse, qty_step, c_mult),
                  entry_price)
    IN  Priced(IF is_long
               THEN Min(round_dn(FMul(last[4], S - secondary_pprice_diff), price_step),
                        last[2])
               ELSE Max(round_up(FMul(last[4], S + secondary_pprice_diff), price_step),
                        last[2]))

\* the end of calc_whole_*_entry_grid, from `if secondary_allocation > 0.0` on, given the
\* primary grid
WholeGridOf(is_long, grid, balance, inverse, qty_step, price_step, c_mult, wallet_exposure_limit, secondary_allocation, secondary_pprice_diff) ==
    SelectSeq(IF SecondaryAllocation(secondary_allocation) > 0
              THEN Append(grid, SecondaryNode(is_long, balance, Last(grid), inverse, qty_step,
                                              price_step, c_mult, wallet_exposure_limit,
                                              secondary_pprice_diff))
              ELSE grid,
              LAMBDA r : IF is_long THEN r[1] > 0 ELSE r[1] < 0)

calc_whole_entry_grid(is_long, balance, initial_entry_price, inverse, qty_step, price_step, min_qty, min_cost, c_mult, grid_span, wallet_exposure_limit, max_n_entry_orders, initial_qty_pct, eprice_pprice_diff, secondary_allocation, secondary_pprice_diff, eprice_exp_base) ==
    WholeGridOf(
        is_long,
        eval_entry_grid(
            is_long, balance, initial_entry_price, inverse, qty_step, price_step, min_qty,
            min_cost, c_mult, grid_span,
            FMul(wallet_exposure_limit, S - SecondaryAllocation(secondary_allocation)),
            max_n_entry_orders,
            FDiv(initial_qty_pct, S - SecondaryAllocation(secondary_allocation)),
            eprice_pprice_diff,
            find_eprice_pprice_diff_wallet_exposure_weighting(
                is_long, balance, initial_entry_price, inverse, qty_step, price_step,
                min_qty, min_cost, c_mult, grid_span,
                FMul(wallet_exposure_limit, S - SecondaryAllocation(secondary_allocation)),
                max_n_entry_orders,
                FDiv(initial_qty_pct, S - SecondaryAllocation(secondary_allocation)),
                eprice_pprice_diff, eprice_exp_base),
            eprice_exp_base),
        balance, inverse, qty_step, price_step, c_mult, wallet_exposure_limit,
        secondary_allocation, secondary_pprice_diff)

calc_whole_long_entry_grid(balance, initial_entry_price, inverse, qty_step, price_step, min_qty, min_cost, c_mult, grid_span, wallet_exposure_limit, max_n_entry_orders, initial_qty_pct, eprice_pprice_diff, secondary_allocation, secondary_pprice_diff, eprice_exp_base) ==
    calc_whole_entry_grid(TRUE, balance, initial_entry_price, inverse, qty_step, price_step,
                          min_qty, min_cost, c_mult, grid_span, wallet_exposure_limit,
                          max_n_entry_orders, initial_qty_pct, eprice_pprice_diff,
                          secondary_allocation, secondary_pprice_diff, eprice_exp_base)

calc_whole_short_entry_grid(balance, initial_entry_price, inverse, qty_step, price_step, min_qty, min_cost, c_mult, grid_span, wallet_exposure_limit, max_n_entry_orders, initial_qty_pct, eprice_pprice_diff, secondary_allocation, secondary_pprice_diff, eprice_exp_base) ==
    calc_whole_entry_grid(FALSE, balance, initial_entry_price, inverse, qty_step, price_step,
                          min_qty, min_cost, c_mult, grid_span, wallet_exposure_limit,
                          max_n_entry_orders, initial_qty_pct, eprice_pprice_diff,
                          secondary_allocation, secondary_pprice_diff, eprice_exp_base)

SubSeqFrom(s, i) == SubSeq(s, i, Len(s))

\* `while k < len(grid) - 1 and abs(grid[k][2]) <= abs_psize * 0.99999: k += 1`, with k
\* counted from 1
RECURSIVE FirstNodeAbove(_, _, _)
FirstNodeAbove(grid, abs_psize, k) ==
    IF k < Len(grid) /\ Abs(grid[k][3]) * 100000 <= abs_psize * 99999
    THEN FirstNodeAbove(grid, abs_psize, k + 1)
    ELSE k

\* the index (from 1) of the node whose psize is closest to psize_, and its distance:
\* sorted([(abs(grid[i][2] - psize_) / psize_, i) ...])[0]
ClosestNode(grid, psize_) ==
    LET d(i) == FDiv(Abs(Abs(grid[i][3]) - Abs(psize_)), Abs(psize_))
        i == CHOOSE i \in 1..Len(grid) :
                \A j \in 1..Len(grid) : d(i) < d(j) \/ (d(i) = d(j) /\ i <= j)
    IN  <<d(i), i>>

approximate_grid_raises(pprice, secondary_allocation) ==
    pprice = 0 \/ calc_whole_entry_grid_raises(secondary_allocation)

\* the arguments of approximate_long_grid / approximate_short_grid, as one record
ApproximateArgs(is_long, balance, psize, pprice, inverse, qty_step, price_step, min_qty, min_cost, c_mult, grid_span, wallet_exposure_limit, max_n_entry_orders, initial_qty_pct, eprice_pprice_diff, secondary_allocation, secondary_pprice_diff, eprice_exp_base) ==
    [is_long |-> is_long, balance |-> balance, psize |-> psize, pprice |-> pprice,
     inverse |-> inverse, qty_step |-> qty_step, price_step |-> price_step,
     min_qty |-> min_qty, min_cost |-> min_cost, c_mult |-> c_mult, grid_span |-> grid_span,
     wallet_exposure_limit |-> wallet_exposure_limit,
     max_n_entry_orders |-> max_n_entry_orders, initial_qty_pct |-> initial_qty_pct,
     eprice_pprice_diff |-> eprice_pprice_diff, secondary_allocation |-> secondary_allocation,
     secondary_pprice_diff |-> secondary_pprice_diff, eprice_exp_base |-> eprice_exp_base]

\* eval_(ientry_price_guess, psize_)[0] of approximate_*_grid, and the whole grid at pprice
\* that is returned for psize == 0.0; `a` holds the arguments
ApproximateEval(a, initial_entry_price) ==
    calc_whole_entry_grid(a.is_long, a.balance, initial_entry_price, a.inverse, a.qty_step,
                          a.price_step, a.min_qty, a.min_cost, a.c_mult, a.grid_span,
                          a.wallet_exposure_limit, a.max_n_entry_orders, a.initial_qty_pct,
                          a.eprice_pprice_diff, a.secondary_allocation,
                          a.secondary_pprice_diff, a.eprice_exp_base)

\* the locals of approximate_*_grid before its first grid: the whole grid at pprice when
\* flat, else eval_(pprice, psize); n counts the rounds `for _ in range(5)` has left
ApproximateStart(a) ==
    [stage |-> IF a.psize = 0 THEN "flat" ELSE "first", done |-> FALSE, guess |-> a.pprice,
     k |-> 1, n |-> 5, npprice |-> 0, grid |-> <<>>]

\* a node with its qty replaced: max(min_entry_qty, round_(abs(node psize) - abs_psize))
\* and, for the adjusted initial entry, its psize and wallet exposure recomputed
AdjustedNode(a, r, is_first) ==
    LET Resized(q, psize) ==
            IF is_first
            THEN <<q, r[2], psize, r[4],
                   FDiv(qty_to_cost(psize, r[4], a.inverse, a.c_mult), a.balance)>>
            ELSE [r EXCEPT ![1] = q]
        Signed(q) == Resized(q, round_(a.psize + q, a.qty_step))
    IN  Signed((IF a.is_long THEN 1 ELSE -1)
               * Max(calc_min_entry_qty(r[2], a.inverse, a.qty_step, a.min_qty, a.min_cost),
                     round_(Abs(r[IF is_first THEN 1 ELSE 3]) - Abs(a.psize), a.qty_step)))

\* the statements after the `for _ in range(5)` loop
ApproximateFinish(a, grid, k) ==
    [stage |-> "done", done |-> TRUE, guess |-> 0, k |-> k, n |-> 0, npprice |-> 0,
     grid |-> <<AdjustedNode(a, grid[k], FALSE)>> \o SubSeqFrom(grid, k + 1)]

\* the head of one round of the loop, up to its first eval_, or the end of the loop
ApproximateRound(a, grid, k, n) ==
    LET Guess(npprice) ==
            [stage |-> "full", done |-> FALSE, guess |-> npprice, k |-> k, n |-> n,
             npprice |-> npprice, grid |-> grid]
    IN  IF n = 0 THEN ApproximateFinish(a, grid, k)
        ELSE Guess(calc_new_psize_pprice(a.psize, a.pprice,
                                         round_(grid[k][3] - a.psize, a.qty_step),
                                         grid[k][2], a.qty_step)[2])

\* the statements of approximate_*_grid between one grid and the next, or its return;
\* grid is the grid just computed
ApproximateNext(st, a, grid) ==
    CASE st.stage = "flat" -> [st EXCEPT !.done = TRUE, !.grid = grid]
      [] st.stage = "first" ->
            [st EXCEPT !.stage = "second",
                       !.guess = FMul(a.pprice,
                                      FDiv(a.pprice, grid[ClosestNode(grid, a.psize)[2]][4]))]
      [] st.stage = "second" ->
            IF ClosestNode(grid, a.psize)[1] < 10
            THEN \* good guess
                 [st EXCEPT !.stage = "good",
                            !.guess = FMul(grid[1][2],
                                           FDiv(a.pprice,
                                                grid[ClosestNode(grid, a.psize)[2]][4]))]
            ELSE IF FirstNodeAbove(grid, Abs(a.psize), 1) = 1
            THEN \* psize is less than iqty: the grid with adjusted iqty
                 [st EXCEPT !.done = TRUE,
                            !.grid = <<AdjustedNode(a, grid[1], TRUE)>> \o SubSeqFrom(grid, 2)]
            ELSE ApproximateRound(a, grid, FirstNodeAbove(grid, Abs(a.psize), 1), 5)
      [] st.stage = "good" ->
            [st EXCEPT !.done = TRUE,
                       !.grid = SubSeqFrom(grid, ClosestNode(grid, a.psize)[2] + 1)]
      [] st.stage = "full" ->
            IF st.k > Len(grid) THEN ApproximateRound(a, grid, Len(grid), st.n - 1)
            ELSE [st EXCEPT !.stage = "refined",
                            !.guess = FMul(st.npprice, FDiv(st.npprice, grid[st.k][4]))]
      [] OTHER ->
            ApproximateRound(a, grid, FirstNodeAbove(grid, Abs(a.psize), 1), st.n - 1)

\* the state approximate_*_grid returns in; its grid field is the returned grid
RECURSIVE ApproximateRun(_, _)
ApproximateRun(st, a) ==
    IF st.done THEN st
    ELSE ApproximateRun(
             ApproximateNext(st, a,
                             ApproximateEval(a, IF st.stage = "flat" THEN st.guess
                                                ELSE round_(st.guess, a.price_step))),
             a)

\* approximate_long_grid / approximate_short_grid with crop = True
approximate_grid(is_long, balance, psize, pprice, inverse, qty_step, price_step, min_qty, min_cost, c_mult, grid_span, wallet_exposure_limit, max_n_entry_orders, initial_qty_pct, eprice_pprice_diff, secondary_allocation, secondary_pprice_diff, eprice_exp_base) ==
    ApproximateRun(
        ApproximateStart(
            ApproximateArgs(is_long, balance, psize, pprice, inverse, qty_step, price_step,
                            min_qty, min_cost, c_mult, grid_span, wallet_exposure_limit,
                            max_n_entry_orders, initial_qty_pct, eprice_pprice_diff,
                            secondary_allocation, secondary_pprice_diff, eprice_exp_base)),
        ApproximateArgs(is_long, balance, psize, pprice, inverse, qty_step, price_step,
                        min_qty, min_cost, c_mult, grid_span, wallet_exposure_limit,
                        max_n_entry_orders, initial_qty_pct, eprice_pprice_diff,
                        secondary_allocation, secondary_pprice_diff, eprice_exp_base)).grid

approximate_long_grid(balance, psize, pprice, inverse, qty_step, price_step, min_qty, min_cost, c_mult, grid_span, wallet_exposure_limit, max_n_entry_orders, initial_qty_pct, eprice_pprice_diff, secondary_allocation, secondary_pprice_diff, eprice_exp_base) ==
    approximate_grid(TRUE, balance, psize, pprice, inverse, qty_step, price_step, min_qty,
                     min_cost, c_mult, grid_span, wallet_exposure_limit, max_n_entry_orders,
                     initial_qty_pct, eprice_pprice_diff, secondary_allocation,
                     secondary_pprice_diff, eprice_exp_base)

approximate_short_grid(balance, psize, pprice, inverse, qty_step, price_step, min_qty, min_cost, c_mult, grid_span, wallet_exposure_limit, max_n_entry_orders, initial_qty_pct, eprice_pprice_diff, secondary_allocation, secondary_pprice_diff, eprice_exp_base) ==
    approximate_grid(FALSE, balance, psize, pprice, inverse, qty_step, price_step, min_qty,
                     min_cost, c_mult, grid_span, wallet_exposure_limit, max_n_entry_orders,
                     initial_qty_pct, eprice_pprice_diff, secondary_allocation,
                     secondary_pprice_diff, eprice_exp_base)

\* calc_diff(x, y) < 0.00001, exactly on the integers
DiffBelow1e5(x, y) ==
    Abs(x - y) < Abs(y) \div 100000 + (IF Abs(y) % 100000 = 0 THEN 0 ELSE 1)

\* a mutation of EmaEntryPrice: the quote is not taken into account
EmaEntryPriceUnquoted(is_long, quote, ema_band, dist, price_step) ==
    IF is_long THEN round_dn(FMul(ema_band, S - dist), price_step)
    ELSE round_up(FMul(ema_band, S + dist), price_step)

\* the price of the initial and of the auto-unstuck entry: min(highest_bid,
\* round_dn(ema_band_lower * (1 - dist))) for long, max(lowest_ask,
\* round_up(ema_band_upper * (1 + dist))) for short
EmaEntryPrice(is_long, quote, ema_band, dist, price_step) ==
    IF is_long THEN Min(quote, round_dn(FMul(ema_band, S - dist), price_step))
    ELSE Max(quote, round_up(FMul(ema_band, S + dist), price_step))

\* a mutation of AtExposureLimit: an exposure equal to the limit passes
AboveExposureLimit(wallet_exposure, wallet_exposure_limit) ==
    wallet_exposure > wallet_exposure_limit

\* `if wallet_exposure >= wallet_exposure_limit: return [(0.0, 0.0, "")]`
AtExposureLimit(wallet_exposure, wallet_exposure_limit) ==
    wallet_exposure >= wallet_exposure_limit

\* the auto-unstuck branch of the entry planners is taken
AutoUnstuckEntry(wallet_exposure, wallet_exposure_limit, auto_unstuck_wallet_exposure_threshold) ==
    /\ auto_unstuck_wallet_exposure_threshold # 0
    /\ wallet_exposure > FMul(FMul(wallet_exposure_limit,
                                   S - auto_unstuck_wallet_exposure_threshold), 990)

\* the order returned when the initial entry was partially filled; first_qty = grid[0][0]
PartialInitialEntry(is_long, balance, first_qty, entry_price, inverse, qty_step, min_qty, min_cost, c_mult, wallet_exposure_limit, initial_qty_pct) ==
    <<(IF is_long THEN 1 ELSE -1)
          * Max(calc_min_entry_qty(entry_price, inverse, qty_step, min_qty, min_cost),
                Min(round_(cost_to_qty(FMul(FMul(balance, wallet_exposure_limit),
                                            initial_qty_pct),
                                       entry_price, inverse, c_mult), qty_step),
                    Abs(first_qty))),
      entry_price, IF is_long THEN "long_ientry" ELSE "short_ientry">>

\* a mutation of IsSecondary: with a secondary allocation every node counts as the
\* secondary one
IsSecondaryNode(i, n, secondary_allocation) == secondary_allocation > 50

\* lines 1411-1415, 1578-1582: i == len(grid) - 1 and secondary_allocation > 0.05
IsSecondary(i, n, secondary_allocation) == i = n /\ secondary_allocation > 50

\* the `for i in range(len(grid))` loop of calc_long_entry_grid
RECURSIVE LongEntryLoop(_, _, _, _, _, _, _, _, _, _, _, _)
LongEntryLoop(grid, i, entries, psize, pprice, highest_bid, inverse, qty_step, min_qty, min_cost, wallet_exposure_limit, secondary_allocation) ==
    IF i > Len(grid) THEN entries
    ELSE IF grid[i][3] * 100 < psize * 105 \/ grid[i][2] * 10000 > pprice * 9995
    THEN LongEntryLoop(grid, i + 1, entries, psize, pprice, highest_bid, inverse, qty_step,
                       min_qty, min_cost, wallet_exposure_limit, secondary_allocation)
    ELSE IF grid[i][5] * 100 > wallet_exposure_limit * 101
    THEN entries
    ELSE LongEntryLoop(
             grid, i + 1,
             IF entries = <<>> \/ Last(entries)[2] # Min(highest_bid, grid[i][2])
             THEN Append(entries,
                         <<Max(calc_min_entry_qty(Min(highest_bid, grid[i][2]), inverse,
                                                  qty_step, min_qty, min_cost),
                               grid[i][1]),
                           Min(highest_bid, grid[i][2]),
                           IF IsSecondary(i, Len(grid), secondary_allocation)
                           THEN "long_secondary_rentry" ELSE "long_primary_rentry">>)
             ELSE entries,
             psize, pprice, highest_bid, inverse, qty_step, min_qty, min_cost,
             wallet_exposure_limit, secondary_allocation)

\* the `for i in range(len(grid))` loop of calc_short_entry_grid
RECURSIVE ShortEntryLoop(_, _, _, _, _, _, _, _, _, _, _)
ShortEntryLoop(grid, i, entries, psize, pprice, lowest_ask, inverse, qty_step, min_qty, min_cost, secondary_allocation) ==
    IF i > Len(grid) THEN entries
    ELSE IF grid[i][3] * 100 > psize * 105 \/ grid[i][2] * 10000 < pprice * 9995
    THEN ShortEntryLoop(grid, i + 1, entries, psize, pprice, lowest_ask, inverse, qty_step,
                        min_qty, min_cost, secondary_allocation)
    ELSE ShortEntryLoop(
             grid, i + 1,
             IF entries = <<>> \/ Last(entries)[2] # Max(lowest_ask, grid[i][2])
             THEN Append(entries,
                         <<-Max(calc_min_entry_qty(Max(lowest_ask, grid[i][2]), inverse,
                                                   qty_step, min_qty, min_cost),
                                Abs(grid[i][1])),
                           Max(lowest_ask, grid[i][2]),
                           IF IsSecondary(i, Len(grid), secondary_allocation)
                           THEN "short_secondary_rentry" ELSE "short_primary_rentry">>)
             ELSE entries,
             psize, pprice, lowest_ask, inverse, qty_step, min_qty, min_cost,
             secondary_allocation)

\* a ladder, or the single empty order when the ladder has no order
OrEmpty(entries) == IF entries = <<>> THEN <<EmptyOrder>> ELSE entries

\* the end of calc_long_entry_grid / calc_short_entry_grid, from `if len(grid) == 0` on,
\* given the approximated grid
EntriesOfGrid(is_long, grid, balance, psize, pprice, quote, ientry_price, inverse, qty_step, min_qty, min_cost, c_mult, wallet_exposure_limit, initial_qty_pct, secondary_allocation) ==
    IF Len(grid) = 0 THEN <<EmptyOrder>>
    ELSE IF DiffBelow1e5(grid[1][4], grid[1][2])
    THEN \* the initial entry was partially filled
         <<PartialInitialEntry(is_long, balance, grid[1][1], ientry_price, inverse, qty_step,
                               min_qty, min_cost, c_mult, wallet_exposure_limit,
                               initial_qty_pct)>>
    ELSE IF is_long
    THEN OrEmpty(LongEntryLoop(grid, 1, <<>>, psize, pprice, quote, inverse, qty_step,
                               min_qty, min_cost, wallet_exposure_limit,
                               secondary_allocation))
    ELSE OrEmpty(ShortEntryLoop(grid, 1, <<>>, psize, pprice, quote, inverse, qty_step,
                                min_qty, min_cost, secondary_allocation))

\* the inputs on which calc_long_entry_grid / calc_short_entry_grid raise: those that
\* reach the approximated grid with a zero pprice or secondary_allocation >= 1.0
calc_entry_grid_raises(balance, psize, pprice, quote, inverse, do_side, qty_step, min_qty, min_cost, c_mult, wallet_exposure_limit, secondary_allocation, auto_unstuck_wallet_exposure_threshold) ==
    /\ do_side \/ Abs(psize) > calc_min_entry_qty(quote, inverse, qty_step, min_qty, min_cost)
    /\ psize # 0
    /\ ~AtExposureLimit(FDiv(qty_to_cost(psize, pprice, inverse, c_mult), balance),
                        wallet_exposure_limit)
    /\ ~AutoUnstuckEntry(FDiv(qty_to_cost(psize, pprice, inverse, c_mult), balance),
                         wallet_exposure_limit, auto_unstuck_wallet_exposure_threshold)
    /\ approximate_grid_raises(pprice, secondary_allocation)

\* calc_long_entry_grid (is_long) and calc_short_entry_grid, whose statements differ in
\* the signs, the roundings and the ladder walk only; quote is highest_bid or lowest_ask,
\* ema_band is ema_band_lower or ema_band_upper
calc_entry_grid(is_long, balance, psize, pprice, quote, ema_band, inverse, do_side, qty_step, price_step, min_qty, min_cost, c_mult, grid_span, wallet_exposure_limit, max_n_entry_orders, initial_qty_pct, initial_eprice_ema_dist, eprice_pprice_diff, secondary_allocation, secondary_pprice_diff, eprice_exp_base, auto_unstuck_wallet_exposure_threshold, auto_unstuck_ema_dist) ==
    IF ~(do_side
         \/ (IF is_long THEN psize ELSE Abs(psize))
                > calc_min_entry_qty(quote, inverse, qty_step, min_qty, min_cost))
    THEN <<EmptyOrder>>
    ELSE IF psize = 0
    THEN <<<<(IF is_long THEN 1 ELSE -1)
                 * calc_initial_entry_qty(
                       balance,
                       EmaEntryPrice(is_long, quote, ema_band, initial_eprice_ema_dist,
                                     price_step),
                       inverse, qty_step, min_qty, min_cost, c_mult, wallet_exposure_limit,
                       initial_qty_pct),
             EmaEntryPrice(is_long, quote, ema_band, initial_eprice_ema_dist, price_step),
             IF is_long THEN "long_ientry" ELSE "short_ientry">>>>
    ELSE IF AtExposureLimit(FDiv(qty_to_cost(psize, pprice, inverse, c_mult), balance),
                            wallet_exposure_limit)
    THEN <<EmptyOrder>>
    ELSE IF AutoUnstuckEntry(FDiv(qty_to_cost(psize, pprice, inverse, c_mult), balance),
                             wallet_exposure_limit, auto_unstuck_wallet_exposure_threshold)
    THEN <<<<(IF is_long THEN 1 ELSE -1)
                 * find_entry_qty_bringing_wallet_exposure_to_target(
                       balance, psize, pprice, wallet_exposure_limit,
                       EmaEntryPrice(is_long, quote, ema_band, auto_unstuck_ema_dist,
                                     price_step),
                       inverse, qty_step, c_mult),
             EmaEntryPrice(is_long, quote, ema_band, auto_unstuck_ema_dist, price_step),
             IF is_long THEN "long_unstuck_entry" ELSE "short_unstuck_entry">>>>
    ELSE EntriesOfGrid(
             is_long,
             approximate_grid(is_long, balance, psize, pprice, inverse, qty_step, price_step,
                              min_qty, min_cost, c_mult, grid_span, wallet_exposure_limit,
                              max_n_entry_orders, initial_qty_pct, eprice_pprice_diff,
                              secondary_allocation, secondary_pprice_diff, eprice_exp_base),
             balance, psize, pprice, quote,
             EmaEntryPrice(is_long, quote, ema_band, initial_eprice_ema_dist, price_step),
             inverse, qty_step, min_qty, min_cost, c_mult, wallet_exposure_limit,
             initial_qty_pct, secondary_allocation)

calc_long_entry_grid(balance, psize, pprice, highest_bid, ema_band_lower, inverse, do_long, qty_step, price_step, min_qty, min_cost, c_mult, grid_span, wallet_exposure_limit, max_n_entry_orders, initial_qty_pct, initial_eprice_ema_dist, eprice_pprice_diff, secondary_allocation, secondary_pprice_diff, eprice_exp_base, auto_unstuck_wallet_exposure_threshold, auto_unstuck_ema_dist) ==
    calc_entry_grid(TRUE, balance, psize, pprice, highest_bid, ema_band_lower, inverse,
                    do_long, qty_step, price_step, min_qty, min_cost, c_mult, grid_span,
                    wallet_exposure_limit, max_n_entry_orders, initial_qty_pct,
                    initial_eprice_ema_dist, eprice_pprice_diff, secondary_allocation,
                    secondary_pprice_diff, eprice_exp_base,
                    auto_unstuck_wallet_exposure_threshold, auto_unstuck_ema_dist)

calc_short_entry_grid(balance, psize, pprice, lowest_ask, ema_band_upper, inverse, do_short, qty_step, price_step, min_qty, min_cost, c_mult, grid_span, wallet_exposure_limit, max_n_entry_orders, initial_qty_pct, initial_eprice_ema_dist, eprice_pprice_diff, secondary_allocation, secondary_pprice_diff, eprice_exp_base, auto_unstuck_wallet_exposure_threshold, auto_unstuck_ema_dist) ==
    calc_entry_grid(FALSE, balance, psize, pprice, lowest_ask, ema_band_upper, inverse,
                    do_short, qty_step, price_step, min_qty, min_cost, c_mult, grid_span,
                    wallet_exposure_limit, max_n_entry_orders, initial_qty_pct,
                    initial_eprice_ema_dist, eprice_pprice_diff, secondary_allocation,
                    secondary_pprice_diff, eprice_exp_base,
                    auto_unstuck_wallet_exposure_threshold, auto_unstuck_ema_dist)

calc_emas_last(xs, spans) ==
    LET alphas == [i \in 1..Len(spans) |-> FDiv(2 * S, spans[i] + S)]
        RECURSIVE Fold(_, _)
        Fold(emas, i) ==
            IF i > Len(xs) THEN emas
            ELSE Fold([j \in 1..Len(spans) |-> calc_ema(alphas[j], S - alphas[j], emas[j], xs[i])],
                      i + 1)
    IN  Fold([j \in 1..Len(spans) |-> xs[1]], 2)

MinOf(xs) == CHOOSE v \in {xs[i] : i \in 1..Len(xs)} : \A j \in 1..Len(xs) : v <= xs[j]
MaxOf(xs) == CHOOSE v \in {xs[i] : i \in 1..Len(xs)} : \A j \in 1..Len(xs) : v >= xs[j]

\* x ** 0.5, rounded down
FSqrt(x) == CHOOSE r \in 0..(x + S) : r * r <= x * S /\ (r + 1) * (r + 1) > x * S

(***************************************************************************)
(* The arguments of njit_backtest.  Per-side parameters are pairs, long    *)
(* first.  The EMA spans are minutes: 0.05 is three ticks, 0.2 is twelve.  *)
(***************************************************************************)
HedgeConfig ==
    [starting_balance |-> 100000, latency_simulation_ms |-> 1000, maker_fee |-> 1,
     spot |-> FALSE, hedge_mode |-> TRUE, inverse |-> FALSE,
     do_long |-> TRUE, do_short |-> TRUE,
     qty_step |-> 100, price_step |-> 100, min_qty |-> 100, min_cost |-> 20000, c_mult |-> S,
     ema_span_max |-> <<200, 200>>, ema_span_min |-> <<50, 50>>,
     eprice_exp_base |-> <<2, 2>>, eprice_pprice_diff |-> <<20, 20>>,
     grid_span |-> <<300, 300>>, initial_eprice_ema_dist |-> <<10, 10>>,
     initial_qty_pct |-> <<100, 100>>, markup_range |-> <<20, 20>>,
     max_n_entry_orders |-> <<3, 3>>, min_markup |-> <<10, 10>>,
     n_close_orders |-> <<1, 2>>, wallet_exposure_limit |-> <<1000, 100>>,
     secondary_allocation |-> <<0, 0>>, secondary_pprice_diff |-> <<100, 100>>,
     auto_unstuck_ema_dist |-> <<10, 10>>,
     auto_unstuck_wallet_exposure_threshold |-> <<0, 0>>]

LeveragedLongConfig ==
    [HedgeConfig EXCEPT !.do_short = FALSE,
                        !.min_cost = 1000,
                        !.initial_qty_pct = <<1000, 1000>>,
                        !.wallet_exposure_limit = <<10000, 10000>>,
                        !.n_close_orders = <<2, 2>>,
                        !.auto_unstuck_wallet_exposure_threshold = <<100, 100>>]

\* the third trades the short side only
Configs == {HedgeConfig, LeveragedLongConfig, [HedgeConfig EXCEPT !.do_long = FALSE]}

\* the ticks processed after the EMA burn-in
MaxTicks == 3
\* the price of every tick of the burn-in
StartPrice == 20000
\* a tick is <<timestamp - previous timestamp, qty, price>>
Ticks ==
    { <<1000, 1000, 19000>>, <<1000, 1000, 21000>>,
      <<60000, 1000, 19000>>, <<60000, 1000, 21000>>,
      <<1000, 1000, 18000>>, <<60000, 1000, 17500>>,
      <<1000, 0, 20000>>, <<600000, 1000, 20000>> }

VARIABLES
    cfg,            \* the arguments of the run
    pc,             \* the position of njit_backtest in its loop body
    k, timestamp, qty, price, prev_price,
                    \* k, timestamps[k], qtys[k], prices[k], prices[k - 1]
    balance, balance_long, balance_short, equity,
    long_psize, long_pprice, short_psize, short_pprice,
    fills, stats,
    long_entries, long_closes, short_entries, short_closes,
    bkr_price, closest_bkr,
    next_entry_grid_update_ts_long, next_entry_grid_update_ts_short,
    next_close_grid_update_ts_long, next_close_grid_update_ts_short,
    next_stats_update,
    emas_long, emas_short,
    long_wallet_exposure, short_wallet_exposure,
    plan            \* the planner harness: the arguments and the orders returned

tickv == <<k, timestamp, qty, price, prev_price>>
walletv == <<balance, balance_long, balance_short, equity>>
longv == <<long_psize, long_pprice, long_wallet_exposure>>
shortv == <<short_psize, short_pprice, short_wallet_exposure>>
ladderv == <<long_entries, long_closes, short_entries, short_closes>>
longtimerv == <<next_entry_grid_update_ts_long, next_close_grid_update_ts_long>>
shorttimerv == <<next_entry_grid_update_ts_short, next_close_grid_update_ts_short>>
emav == <<emas_long, emas_short>>
vars == <<cfg, pc, tickv, walletv, longv, shortv, fills, stats, ladderv, bkr_price,
          closest_bkr, longtimerv, shorttimerv, next_stats_update, emav, plan>>

spans_long(c) ==
    IF c.do_long
    THEN <<c.ema_span_min[1] * 60, FSqrt(FMul(c.ema_span_min[1], c.ema_span_max[1])) * 60,
           c.ema_span_max[1] * 60>>
    ELSE <<S, S, S>>
spans_short(c) ==
    IF c.do_short
    THEN <<c.ema_span_min[2] * 60, FSqrt(FMul(c.ema_span_min[2], c.ema_span_max[2])) * 60,
           c.ema_span_max[2] * 60>>
    ELSE <<S, S, S>>
ClampSpans(spans) == [i \in 1..Len(spans) |-> IF spans[i] < S THEN S ELSE spans[i]]
max_span(c) ==
    NpRound(Max(MaxOf(ClampSpans(spans_long(c))), MaxOf(ClampSpans(spans_short(c)))))
alphas(spans) == [i \in 1..Len(spans) |-> FDiv(2 * S, spans[i] + S)]

long_wallet_exposure_auto_unstuck_threshold(c) ==
    IF c.auto_unstuck_wallet_exposure_threshold[1] # 0
    THEN FMul(c.wallet_exposure_limit[1], S - c.auto_unstuck_wallet_exposure_threshold[1])
    ELSE c.wallet_exposure_limit[1] * 10
short_wallet_exposure_auto_unstuck_threshold(c) ==
    IF c.auto_unstuck_wallet_exposure_threshold[2] # 0
    THEN FMul(c.wallet_exposure_limit[2], S - c.auto_unstuck_wallet_exposure_threshold[2])
    ELSE c.wallet_exposure_limit[2] * 10

\* the planner harness is idle during a run
NoPlan == [op |-> "none"]

\* njit_backtest up to the first iteration of its loop
InitRun(c) ==
    /\ cfg = c
    /\ pc = "next"
    /\ k = max_span(c) - 1
    /\ timestamp = 0
    /\ qty = S
    /\ price = StartPrice
    /\ prev_price = StartPrice
    /\ balance = c.starting_balance
    /\ balance_long = c.starting_balance
    /\ balance_short = c.starting_balance
    /\ equity = c.starting_balance
    /\ long_psize = 0 /\ long_pprice = 0 /\ short_psize = 0 /\ short_pprice = 0
    /\ fills = <<>>
    /\ stats = <<>>
    /\ long_entries = <<EmptyOrder>> /\ long_closes = <<EmptyOrder>>
    /\ short_entries = <<EmptyOrder>> /\ short_closes = <<EmptyOrder>>
    /\ bkr_price = 0
    /\ next_entry_grid_update_ts_long = 0 /\ next_entry_grid_update_ts_short = 0
    /\ next_close_grid_update_ts_long = 0 /\ next_close_grid_update_ts_short = 0
    /\ next_stats_update = 0
    /\ closest_bkr = S
    /\ emas_long = IF c.do_long
                   THEN calc_emas_last([i \in 1..max_span(c) |-> StartPrice],
                                       ClampSpans(spans_long(c)))
                   ELSE <<0, 0, 0>>
    /\ emas_short = IF c.do_short
                    THEN calc_emas_last([i \in 1..max_span(c) |-> StartPrice],
                                        ClampSpans(spans_short(c)))
                    ELSE <<0, 0, 0>>
    /\ long_wallet_exposure = 0
    /\ short_wallet_exposure = 0

Init == (\E c \in Configs : InitRun(c)) /\ plan = NoPlan

\* a mutation of Traded: a tick without volume is processed like any other
TradedAlways(q) == TRUE

\* lines 1918-1919: if qtys[k] == 0.0: continue
Traded(q) == q # 0

\* lines 1914-1919: the EMAs of the enabled sides follow the tick's price; a tick without
\* volume ends the iteration
ReadTick(tick) ==
    /\ k' = k + 1
    /\ timestamp' = timestamp + tick[1]
    /\ qty' = tick[2]
    /\ price' = tick[3]
    /\ prev_price' = price
    /\ emas_long' =
          IF cfg.do_long
          THEN LET a == alphas(ClampSpans(spans_long(cfg)))
               IN  [j \in 1..3 |-> calc_ema(a[j], S - a[j], emas_long[j], tick[3])]
          ELSE emas_long
    /\ emas_short' =
          IF cfg.do_short
          THEN LET a == alphas(ClampSpans(spans_short(cfg)))
               IN  [j \in 1..3 |-> calc_ema(a[j], S - a[j], emas_short[j], tick[3])]
          ELSE emas_short
    /\ pc' = IF Traded(tick[2]) THEN "stats" ELSE "next"
    /\ UNCHANGED <<cfg, walletv, longv, shortv, fills, stats, ladderv, bkr_price, closest_bkr,
                   longtimerv, shorttimerv, next_stats_update, plan>>

\* line 1913: the next tick of the array is read
NextTick ==
    /\ pc = "next"
    /\ k < max_span(cfg) - 1 + MaxTicks
    /\ \E tick \in Ticks : ReadTick(tick)

\* line 2398: the ticks are exhausted
Finish ==
    /\ pc = "next"
    /\ pc' = "return_end"
    /\ UNCHANGED <<cfg, tickv, walletv, longv, shortv, fills, stats, ladderv, bkr_price,
                   closest_bkr, longtimerv, shorttimerv, next_stats_update, emav, plan>>

StatsRecord(eq) ==
    [timestamp |-> timestamp, balance |-> balance, equity |-> eq, bkr_price |-> bkr_price,
     long_psize |-> long_psize, long_pprice |-> long_pprice,
     short_psize |-> short_psize, short_pprice |-> short_pprice,
     price |-> price, closest_bkr |-> closest_bkr',
     balance_long |-> balance_long, balance_short |-> balance_short,
     equity_long |-> balance_long + calc_long_pnl(long_pprice, price, long_psize,
                                                  cfg.inverse, cfg.c_mult),
     equity_short |-> balance_short + calc_short_pnl(short_pprice, price, short_psize,
                                                     cfg.inverse, cfg.c_mult)]

\* a mutation of LowEquity: the run is given up below half of the starting balance
LowEquityHalf(eq, starting_balance) == eq * 2 < starting_balance

\* line 1939: equity / starting_balance < 0.2
LowEquity(eq, starting_balance) == eq * 5 < starting_balance

\* a mutation of ClosestBkr: the latest distance replaces the closest one
ClosestBkrLatest(closest, bkr, p) == calc_diff(bkr, p)

\* a mutation of ClosestBkr: the closest distance of an earlier run of the twin
\* specification survives into the next run
ClosestBkrAcrossRuns(closest, bkr, p) ==
    IF plan.op = "second_run"
    THEN Min(plan.closest_bkr, Min(closest, calc_diff(bkr, p)))
    ELSE Min(closest, calc_diff(bkr, p))

\* lines 1921-1922: closest_bkr = min(closest_bkr, calc_diff(bkr_price, prices[k]))
ClosestBkr(closest, bkr, p) == Min(closest, calc_diff(bkr, p))

\* a mutation of NextStatsUpdate: a record is due every second
NextStatsUpdateSecond(ts) == ts + 1000

\* line 1960: next_stats_update = timestamps[k] + 60 * 1000
NextStatsUpdate(ts) == ts + 60 * 1000

\* lines 1921-1960: bankruptcy proximity, then the once-a-minute equity check and stats record
UpdateStats ==
    /\ pc = "stats"
    /\ closest_bkr' = ClosestBkr(closest_bkr, bkr_price, price)
    /\ IF timestamp >= next_stats_update
       THEN LET eq == balance + calc_upnl(long_psize, long_pprice, short_psize, short_pprice,
                                          price, cfg.inverse, cfg.c_mult)
            IN  /\ equity' = eq
                /\ IF LowEquity(eq, cfg.starting_balance)
                   THEN /\ pc' = "return_low_equity"
                        /\ UNCHANGED <<stats, next_stats_update>>
                   ELSE /\ stats' = Append(stats, StatsRecord(eq))
                        /\ next_stats_update' = NextStatsUpdate(timestamp)
                        /\ pc' = "refresh"
       ELSE /\ pc' = "refresh"
            /\ UNCHANGED <<equity, stats, next_stats_update>>
    /\ UNCHANGED <<cfg, tickv, balance, balance_long, balance_short, longv, shortv, fills,
                   ladderv, bkr_price, longtimerv, shorttimerv, emav, plan>>

LongEntries(c) ==
    calc_long_entry_grid(balance, long_psize, long_pprice, prev_price, MinOf(emas_long),
                         c.inverse, c.do_long, c.qty_step, c.price_step, c.min_qty, c.min_cost,
                         c.c_mult, c.grid_span[1], c.wallet_exposure_limit[1],
                         c.max_n_entry_orders[1], c.initial_qty_pct[1],
                         c.initial_eprice_ema_dist[1], c.eprice_pprice_diff[1],
                         c.secondary_allocation[1], c.secondary_pprice_diff[1],
                         c.eprice_exp_base[1], c.auto_unstuck_wallet_exposure_threshold[1],
                         c.auto_unstuck_ema_dist[1])
ShortEntries(c) ==
    calc_short_entry_grid(balance, short_psize, short_pprice, prev_price, MaxOf(emas_short),
                          c.inverse, c.do_short, c.qty_step, c.price_step, c.min_qty,
                          c.min_cost, c.c_mult, c.grid_span[2], c.wallet_exposure_limit[2],
                          c.max_n_entry_orders[2], c.initial_qty_pct[2],
                          c.initial_eprice_ema_dist[2], c.eprice_pprice_diff[2],
                          c.secondary_allocation[2], c.secondary_pprice_diff[2],
                          c.eprice_exp_base[2], c.auto_unstuck_wallet_exposure_threshold[2],
                          c.auto_unstuck_ema_dist[2])
LongCloses(c) ==
    calc_long_close_grid(balance, long_psize, long_pprice, prev_price, MaxOf(emas_long),
                         c.inverse, c.qty_step, c.price_step, c.min_qty, c.min_cost, c.c_mult,
                         c.wallet_exposure_limit[1], c.min_markup[1], c.markup_range[1],
                         c.n_close_orders[1], c.auto_unstuck_wallet_exposure_threshold[1],
                         c.auto_unstuck_ema_dist[1])
ShortCloses(c) ==
    calc_short_close_grid(balance, short_psize, short_pprice, prev_price, MinOf(emas_short),
                          c.spot, c.inverse, c.qty_step, c.price_step, c.min_qty, c.min_cost,
                          c.c_mult, c.wallet_exposure_limit[2], c.initial_qty_pct[2],
                          c.min_markup[2], c.markup_range[2], c.n_close_orders[2],
                          c.auto_unstuck_wallet_exposure_threshold[2],
                          c.auto_unstuck_ema_dist[2])

\* a mutation of NextGridUpdate: a ladder is due again after one minute
NextGridUpdateMinute(ts) == ts + 1000 * 60

\* lines 1991, 2022, 2047, 2074: next_*_grid_update_ts_* = timestamps[k] + 1000 * 60 * 10
NextGridUpdate(ts) == ts + 1000 * 60 * 10

\* lines 1961-2074: each ladder whose update time has come is recomputed from the previous
\* tick's price and the EMA band, and is next due in ten minutes
RefreshLadders ==
    /\ pc = "refresh"
    /\ IF timestamp >= next_entry_grid_update_ts_long
       THEN /\ long_entries' = IF cfg.do_long THEN LongEntries(cfg) ELSE <<EmptyOrder>>
            /\ next_entry_grid_update_ts_long' = NextGridUpdate(timestamp)
       ELSE UNCHANGED <<long_entries, next_entry_grid_update_ts_long>>
    /\ IF timestamp >= next_entry_grid_update_ts_short
       THEN /\ short_entries' = IF cfg.do_short THEN ShortEntries(cfg) ELSE <<EmptyOrder>>
            /\ next_entry_grid_update_ts_short' = NextGridUpdate(timestamp)
       ELSE UNCHANGED <<short_entries, next_entry_grid_update_ts_short>>
    /\ IF timestamp >= next_close_grid_update_ts_long
       THEN /\ long_closes' = IF cfg.do_long THEN LongCloses(cfg) ELSE <<EmptyOrder>>
            /\ next_close_grid_update_ts_long' = NextGridUpdate(timestamp)
       ELSE UNCHANGED <<long_closes, next_close_grid_update_ts_long>>
    /\ IF timestamp >= next_close_grid_update_ts_short
       THEN /\ short_closes' = IF cfg.do_short THEN ShortCloses(cfg) ELSE <<EmptyOrder>>
            /\ next_close_grid_update_ts_short' = NextGridUpdate(timestamp)
       ELSE UNCHANGED <<short_closes, next_close_grid_update_ts_short>>
    /\ pc' = "liquidation"
    /\ UNCHANGED <<cfg, tickv, walletv, longv, shortv, fills, stats, bkr_price, closest_bkr,
                   next_stats_update, emav, plan>>

\* a mutation of Fill: the record keeps the balance before the fee is paid
FillBeforeFee(pnl, fee_paid, bal, eq, q, p, psize, pprice, type) ==
    [k |-> k, timestamp |-> timestamp, pnl |-> pnl, fee_paid |-> fee_paid,
     balance |-> bal - fee_paid, equity |-> eq, qty |-> q, price |-> p, psize |-> psize,
     pprice |-> pprice, type |-> type]

\* a fill record: (k, timestamp, pnl, fee_paid, balance, equity, qty, price, psize, pprice,
\* type)
Fill(pnl, fee_paid, bal, eq, q, p, psize, pprice, type) ==
    [k |-> k, timestamp |-> timestamp, pnl |-> pnl, fee_paid |-> fee_paid, balance |-> bal,
     equity |-> eq, qty |-> q, price |-> p, psize |-> psize, pprice |-> pprice, type |-> type]

\* a mutation of Liquidated: liquidation within 3% only
LiquidatedLate(closest) == closest < 30

\* line 2076: closest_bkr < 0.06
Liquidated(closest) == closest < 60

\* lines 2076-2119: a bankruptcy price within 6% of the tick's price liquidates both sides and
\* ends the run.  The fill's qty is read after the position is zeroed.
Liquidation ==
    /\ pc = "liquidation"
    /\ IF Liquidated(closest_bkr)
       THEN LET long_fill ==
                    Fill(calc_long_pnl(long_pprice, price, -long_psize, cfg.inverse, cfg.c_mult),
                         -FMul(qty_to_cost(long_psize, long_pprice, cfg.inverse, cfg.c_mult),
                               cfg.maker_fee),
                         0, 0, 0, price, 0, 0, "long_bankruptcy")
                short_fill ==
                    Fill(calc_short_pnl(short_pprice, price, -short_psize, cfg.inverse,
                                        cfg.c_mult),
                         -FMul(qty_to_cost(short_psize, short_pprice, cfg.inverse, cfg.c_mult),
                               cfg.maker_fee),
                         0, 0, 0, price, 0, 0, "short_bankruptcy")
            IN  /\ fills' = fills \o (IF long_psize # 0 THEN <<long_fill>> ELSE <<>>)
                                  \o (IF short_psize # 0 THEN <<short_fill>> ELSE <<>>)
                /\ balance' = IF long_psize # 0 \/ short_psize # 0 THEN 0 ELSE balance
                /\ equity' = IF long_psize # 0 \/ short_psize # 0 THEN 0 ELSE equity
                /\ long_psize' = 0
                /\ long_pprice' = IF long_psize # 0 THEN 0 ELSE long_pprice
                /\ short_psize' = 0
                /\ short_pprice' = IF short_psize # 0 THEN 0 ELSE short_pprice
                /\ pc' = "return_bankruptcy"
       ELSE /\ pc' = "long_entries"
            /\ UNCHANGED <<fills, balance, equity, long_psize, long_pprice, short_psize,
                           short_pprice>>
    /\ UNCHANGED <<cfg, tickv, balance_long, balance_short, long_wallet_exposure,
                   short_wallet_exposure, stats, ladderv, bkr_price, closest_bkr, longtimerv,
                   shorttimerv, next_stats_update, emav, plan>>

\* a mutation of PulledForward: the update waits a second longer than the latency
PulledForwardLate(next, ts, latency) == Min(next, ts + latency + 1000)

\* lines 2122-2127 and the same in the other three loops: min(next_*_grid_update_ts_*,
\* timestamps[k] + latency_simulation_ms)
PulledForward(next, ts, latency) == Min(next, ts + latency)

\* a mutation of LoopCondition: an order fills as soon as the price touches it
LoopConditionTouch(at) ==
    CASE at = "long_entries" ->
             long_entries # <<>> /\ long_entries[1][1] > 0 /\ price <= long_entries[1][2]
      [] at = "short_entries" ->
             short_entries # <<>> /\ short_entries[1][1] < 0 /\ price >= short_entries[1][2]
      [] at = "long_closes" ->
             /\ long_psize > 0 /\ long_closes # <<>> /\ long_closes[1][1] < 0
             /\ price >= long_closes[1][2]
      [] at = "short_closes" ->
             /\ short_psize < 0 /\ short_closes # <<>> /\ short_closes[1][1] > 0
             /\ price <= short_closes[1][2]

\* lines 2121, 2176, 2231-2236, 2293-2298: the conditions of the four matching loops
LoopCondition(at) ==
    CASE at = "long_entries" ->
             long_entries # <<>> /\ long_entries[1][1] > 0 /\ price < long_entries[1][2]
      [] at = "short_entries" ->
             short_entries # <<>> /\ short_entries[1][1] < 0 /\ price > short_entries[1][2]
      [] at = "long_closes" ->
             /\ long_psize > 0 /\ long_closes # <<>> /\ long_closes[1][1] < 0
             /\ price > long_closes[1][2]
      [] at = "short_closes" ->
             /\ short_psize < 0 /\ short_closes # <<>> /\ short_closes[1][1] > 0
             /\ price < short_closes[1][2]

\* lines 2121-2175, one iteration of the loop: the head long entry fills when the tick's
\* price is strictly below its price
FillLongEntry ==
    /\ pc = "long_entries"
    /\ LoopCondition("long_entries")
    /\ LET o == long_entries[1]
           pp == calc_new_psize_pprice(long_psize, long_pprice, o[1], o[2], cfg.qty_step)
           fee_paid == -FMul(qty_to_cost(o[1], o[2], cfg.inverse, cfg.c_mult), cfg.maker_fee)
           bal == balance + fee_paid
           eq == calc_equity(bal, pp[1], pp[2], short_psize, short_pprice, price, cfg.inverse,
                             cfg.c_mult)
       IN  /\ next_entry_grid_update_ts_long' =
                 PulledForward(next_entry_grid_update_ts_long, timestamp,
                               cfg.latency_simulation_ms)
           /\ next_close_grid_update_ts_long' =
                 PulledForward(next_close_grid_update_ts_long, timestamp,
                               cfg.latency_simulation_ms)
           /\ long_psize' = pp[1]
           /\ long_pprice' = pp[2]
           /\ balance' = bal
           /\ balance_long' = balance_long + fee_paid
           /\ equity' = eq
           /\ fills' = Append(fills, Fill(0, fee_paid, bal, eq, o[1], o[2], pp[1], pp[2], o[3]))
           /\ long_entries' = Tail(long_entries)
           /\ bkr_price' = calc_bankruptcy_price(bal, pp[1], pp[2], short_psize, short_pprice,
                                                 cfg.inverse, cfg.c_mult)
           /\ long_wallet_exposure' =
                 FDiv(qty_to_cost(pp[1], pp[2], cfg.inverse, cfg.c_mult), bal)
    /\ UNCHANGED <<cfg, pc, tickv, balance_short, shortv, stats, long_closes, short_entries,
                   short_closes, closest_bkr, shorttimerv, next_stats_update, emav, plan>>

\* lines 2176-2230, one iteration: the head short entry fills when the tick's price is
\* strictly above its price.  Equity and bankruptcy price are computed from the short
\* position passed for both sides.
FillShortEntry ==
    /\ pc = "short_entries"
    /\ LoopCondition("short_entries")
    /\ LET o == short_entries[1]
           pp == calc_new_psize_pprice(short_psize, short_pprice, o[1], o[2], cfg.qty_step)
           fee_paid == -FMul(qty_to_cost(o[1], o[2], cfg.inverse, cfg.c_mult), cfg.maker_fee)
           bal == balance + fee_paid
           eq == calc_equity(bal, pp[1], pp[2], pp[1], pp[2], price, cfg.inverse, cfg.c_mult)
       IN  /\ next_entry_grid_update_ts_short' =
                 PulledForward(next_entry_grid_update_ts_short, timestamp,
                               cfg.latency_simulation_ms)
           /\ next_close_grid_update_ts_short' =
                 PulledForward(next_close_grid_update_ts_short, timestamp,
                               cfg.latency_simulation_ms)
           /\ short_psize' = pp[1]
           /\ short_pprice' = pp[2]
           /\ balance' = bal
           /\ balance_short' = balance_short + fee_paid
           /\ equity' = eq
           /\ fills' = Append(fills, Fill(0, fee_paid, bal, eq, o[1], o[2], pp[1], pp[2], o[3]))
           /\ short_entries' = Tail(short_entries)
           /\ bkr_price' = calc_bankruptcy_price(bal, pp[1], pp[2], pp[1], pp[2],
                                                 cfg.inverse, cfg.c_mult)
           /\ short_wallet_exposure' =
                 FDiv(qty_to_cost(pp[1], pp[2], cfg.inverse, cfg.c_mult), bal)
    /\ UNCHANGED <<cfg, pc, tickv, balance_long, longv, stats, long_entries, long_closes,
                   short_closes, closest_bkr, longtimerv, next_stats_update, emav, plan>>

\* lines 2231-2292, one iteration: the head long close fills when the tick's price is
\* strictly above its price.  pprice is zeroed only when the close overshoots the position.
FillLongClose ==
    /\ pc = "long_closes"
    /\ LoopCondition("long_closes")
    /\ LET o == long_closes[1]
           rounded == round_(long_psize + o[1], cfg.qty_step)
           long_close_qty == IF rounded < 0 THEN -long_psize ELSE o[1]
           new_long_psize == IF rounded < 0 THEN 0 ELSE rounded
           pprice == IF rounded < 0 THEN 0 ELSE long_pprice
           fee_paid == -FMul(qty_to_cost(long_close_qty, o[2], cfg.inverse, cfg.c_mult),
                             cfg.maker_fee)
           pnl == calc_long_pnl(pprice, o[2], long_close_qty, cfg.inverse, cfg.c_mult)
           bal == balance + fee_paid + pnl
           eq == calc_equity(bal, new_long_psize, pprice, short_psize, short_pprice, price,
                             cfg.inverse, cfg.c_mult)
       IN  /\ next_entry_grid_update_ts_long' =
                 PulledForward(next_entry_grid_update_ts_long, timestamp,
                               cfg.latency_simulation_ms)
           /\ next_close_grid_update_ts_long' =
                 PulledForward(next_close_grid_update_ts_long, timestamp,
                               cfg.latency_simulation_ms)
           /\ long_psize' = new_long_psize
           /\ long_pprice' = pprice
           /\ balance' = bal
           /\ balance_long' = balance_long + fee_paid + pnl
           /\ equity' = eq
           /\ fills' = Append(fills, Fill(pnl, fee_paid, bal, eq, long_close_qty, o[2],
                                          new_long_psize, pprice, o[3]))
           /\ long_closes' = Tail(long_closes)
           /\ bkr_price' = calc_bankruptcy_price(bal, new_long_psize, pprice, short_psize,
                                                 short_pprice, cfg.inverse, cfg.c_mult)
           /\ long_wallet_exposure' =
                 FDiv(qty_to_cost(new_long_psize, pprice, cfg.inverse, cfg.c_mult), bal)
    /\ UNCHANGED <<cfg, pc, tickv, balance_short, shortv, stats, long_entries, short_entries,
                   short_closes, closest_bkr, shorttimerv, next_stats_update, emav, plan>>

\* lines 2293-2354, one iteration: the head short close fills when the tick's price is
\* strictly below its price
FillShortClose ==
    /\ pc = "short_closes"
    /\ LoopCondition("short_closes")
    /\ LET o == short_closes[1]
           rounded == round_(short_psize + o[1], cfg.qty_step)
           short_close_qty == IF rounded > 0 THEN -short_psize ELSE o[1]
           new_short_psize == IF rounded > 0 THEN 0 ELSE rounded
           pprice == IF rounded > 0 THEN 0 ELSE short_pprice
           fee_paid == -FMul(qty_to_cost(short_close_qty, o[2], cfg.inverse, cfg.c_mult),
                             cfg.maker_fee)
           pnl == calc_short_pnl(pprice, o[2], short_close_qty, cfg.inverse, cfg.c_mult)
           bal == balance + fee_paid + pnl
           eq == calc_equity(bal, new_short_psize, pprice, new_short_psize, pprice, price,
                             cfg.inverse, cfg.c_mult)
       IN  /\ next_entry_grid_update_ts_short' =
                 PulledForward(next_entry_grid_update_ts_short, timestamp,
                               cfg.latency_simulation_ms)
           /\ next_close_grid_update_ts_short' =
                 PulledForward(next_close_grid_update_ts_short, timestamp,
                               cfg.latency_simulation_ms)
           /\ short_psize' = new_short_psize
           /\ short_pprice' = pprice
           /\ balance' = bal
           /\ balance_short' = balance_short + fee_paid + pnl
           /\ equity' = eq
           /\ fills' = Append(fills, Fill(pnl, fee_paid, bal, eq, short_close_qty, o[2],
                                          new_short_psize, pprice, o[3]))
           /\ short_closes' = Tail(short_closes)
           /\ bkr_price' = calc_bankruptcy_price(bal, new_short_psize, pprice, new_short_psize,
                                                 pprice, cfg.inverse, cfg.c_mult)
           /\ short_wallet_exposure' =
                 FDiv(qty_to_cost(new_short_psize, pprice, cfg.inverse, cfg.c_mult), bal)
    /\ UNCHANGED <<cfg, pc, tickv, balance_long, longv, stats, long_entries, long_closes,
                   short_entries, closest_bkr, longtimerv, next_stats_update, emav, plan>>

\* a matching loop whose condition fails is left for the code that follows it
LeaveLoop ==
    /\ pc \in {"long_entries", "short_entries", "long_closes", "short_closes"}
    /\ ~LoopCondition(pc)
    /\ pc' = CASE pc = "long_entries" -> "short_entries"
               [] pc = "short_entries" -> "long_closes"
               [] pc = "long_closes" -> "short_closes"
               [] pc = "short_closes" -> "bias"
    /\ UNCHANGED <<cfg, tickv, walletv, longv, shortv, fills, stats, ladderv, bkr_price,
                   closest_bkr, longtimerv, shorttimerv, next_stats_update, emav, plan>>

\* a mutation of UnstuckUpdate: a stuck position is looked at again after a minute
UnstuckUpdateMinute(next, lat) == Min(next, lat + 60000)

\* lines 2367-2374, 2388-2395: min(next_*_grid_update_ts_*, timestamps[k] +
\* latency_simulation_ms + 15000)
UnstuckUpdate(next, lat) == Min(next, lat + 15000)

\* lines 2355-2396: the next ladder updates are pulled forward for a flat side, for a
\* position in profit, and for a position stuck at its auto-unstuck threshold
PullUpdatesForward ==
    /\ pc = "bias"
    /\ LET lat == timestamp + cfg.latency_simulation_ms
       IN  /\ next_entry_grid_update_ts_long' =
                 IF cfg.do_long /\ long_psize = 0
                 THEN Min(next_entry_grid_update_ts_long, lat)
                 ELSE IF /\ cfg.do_long /\ ~(price > long_pprice)
                         /\ long_wallet_exposure
                                >= long_wallet_exposure_auto_unstuck_threshold(cfg)
                 THEN UnstuckUpdate(next_entry_grid_update_ts_long, lat)
                 ELSE next_entry_grid_update_ts_long
           /\ next_close_grid_update_ts_long' =
                 IF cfg.do_long /\ long_psize # 0 /\ price > long_pprice
                 THEN Min(next_close_grid_update_ts_long, lat + 2500)
                 ELSE IF /\ cfg.do_long /\ long_psize # 0
                         /\ long_wallet_exposure
                                >= long_wallet_exposure_auto_unstuck_threshold(cfg)
                 THEN UnstuckUpdate(next_close_grid_update_ts_long, lat)
                 ELSE next_close_grid_update_ts_long
           /\ next_entry_grid_update_ts_short' =
                 IF cfg.do_short /\ short_psize = 0
                 THEN Min(next_entry_grid_update_ts_short, lat)
                 ELSE IF /\ cfg.do_short /\ ~(price < short_pprice)
                         /\ short_wallet_exposure
                                >= short_wallet_exposure_auto_unstuck_threshold(cfg)
                 THEN UnstuckUpdate(next_entry_grid_update_ts_short, lat)
                 ELSE next_entry_grid_update_ts_short
           /\ next_close_grid_update_ts_short' =
                 IF cfg.do_short /\ short_psize # 0 /\ price < short_pprice
                 THEN Min(next_close_grid_update_ts_short, lat + 2500)
                 ELSE IF /\ cfg.do_short /\ short_psize # 0
                         /\ short_wallet_exposure
                                >= short_wallet_exposure_auto_unstuck_threshold(cfg)
                 THEN UnstuckUpdate(next_close_grid_update_ts_short, lat)
                 ELSE next_close_grid_update_ts_short
    /\ pc' = "next"
    /\ UNCHANGED <<cfg, tickv, walletv, longv, shortv, fills, stats, ladderv, bkr_price,
                   closest_bkr, next_stats_update, emav, plan>>

Next ==
    \/ NextTick
    \/ Finish
    \/ UpdateStats
    \/ RefreshLadders
    \/ Liquidation
    \/ FillLongEntry
    \/ FillShortEntry
    \/ FillLongClose
    \/ FillShortClose
    \/ LeaveLoop
    \/ PullUpdatesForward

Spec == Init /\ [][Next]_vars

(***************************************************************************)
(* The four planners on their own.  The arguments a caller passes are      *)
(* drawn once; each planner is then applied to them with the per-side      *)
(* parameters of the run's configuration.  A short position is passed with *)
(* its negative size.                                                      *)
(***************************************************************************)
\* <<abs(psize), pprice>>
PlanPositions ==
    { <<0, 0>>, <<300, 20000>>, <<1100, 19300>>, <<2000, 19000>>, <<4600, 19900>>,
      <<5000, 19900>>, <<5000, 20000>>, <<11000, 20000>>, <<50000, 20000>>,
      <<51800, 19300>>, <<2100, 20000>> }
PlanBalances == {100000, 99000}
\* highest_bid and lowest_ask
PlanQuotes == {13000, 19000, 19950, 20000, 21000}
\* <<ema_band_lower, ema_band_upper>>
PlanBands == { <<19500, 20500>>, <<20000, 20000>> }

DisabledConfig == [HedgeConfig EXCEPT !.do_long = FALSE, !.do_short = FALSE]
\* both sides with the same limits, auto-unstuck on and priced at the EMA band
UnstuckConfig ==
    [HedgeConfig EXCEPT !.wallet_exposure_limit = <<1000, 1000>>,
                        !.n_close_orders = <<2, 2>>,
                        !.auto_unstuck_wallet_exposure_threshold = <<100, 100>>,
                        !.auto_unstuck_ema_dist = <<0, 0>>]
\* a secondary allocation of the whole wallet, on both sides
SecondaryConfig == [HedgeConfig EXCEPT !.secondary_allocation = <<1000, 1000>>]
PlanConfigs ==
    {HedgeConfig, LeveragedLongConfig, DisabledConfig, UnstuckConfig, SecondaryConfig,
                  [HedgeConfig EXCEPT !.secondary_allocation = <<300, 300>>],
                  [UnstuckConfig EXCEPT !.min_cost = 30000]}

PlanArgs(bal, pos, quote, band) ==
    [op |-> "args", balance |-> bal, psize |-> pos[1], pprice |-> pos[2], quote |-> quote,
     ema_band_lower |-> band[1], ema_band_upper |-> band[2], orders |-> <<>>,
     raised |-> FALSE]

InitPlan ==
    /\ \E c \in PlanConfigs : InitRun(c)
    /\ \E bal \in PlanBalances, pos \in PlanPositions, quote \in PlanQuotes, band \in PlanBands :
          plan = PlanArgs(bal, pos, quote, band)

simv == <<cfg, pc, tickv, walletv, longv, shortv, fills, stats, ladderv, bkr_price,
          closest_bkr, longtimerv, shorttimerv, next_stats_update, emav>>

\* a call of calc_long_entry_grid: it returns its orders, or raises
PlanLongEntries ==
    /\ plan.op = "args"
    /\ plan' = IF calc_entry_grid_raises(
                      plan.balance, plan.psize, plan.pprice, plan.quote, cfg.inverse,
                      cfg.do_long, cfg.qty_step, cfg.min_qty, cfg.min_cost, cfg.c_mult,
                      cfg.wallet_exposure_limit[1], cfg.secondary_allocation[1],
                      cfg.auto_unstuck_wallet_exposure_threshold[1])
               THEN [plan EXCEPT !.op = "calc_long_entry_grid", !.raised = TRUE]
               ELSE
               [plan EXCEPT
                  !.op = "calc_long_entry_grid",
                  !.orders =
                      calc_long_entry_grid(
                          plan.balance, plan.psize, plan.pprice, plan.quote,
                          plan.ema_band_lower, cfg.inverse, cfg.do_long, cfg.qty_step,
                          cfg.price_step, cfg.min_qty, cfg.min_cost, cfg.c_mult,
                          cfg.grid_span[1], cfg.wallet_exposure_limit[1],
                          cfg.max_n_entry_orders[1], cfg.initial_qty_pct[1],
                          cfg.initial_eprice_ema_dist[1], cfg.eprice_pprice_diff[1],
                          cfg.secondary_allocation[1], cfg.secondary_pprice_diff[1],
                          cfg.eprice_exp_base[1],
                          cfg.auto_unstuck_wallet_exposure_threshold[1],
                          cfg.auto_unstuck_ema_dist[1])]
    /\ UNCHANGED simv

\* a call of calc_short_entry_grid: it returns its orders, or raises
PlanShortEntries ==
    /\ plan.op = "args"
    /\ plan' = IF calc_entry_grid_raises(
                      plan.balance, -plan.psize, plan.pprice, plan.quote, cfg.inverse,
                      cfg.do_short, cfg.qty_step, cfg.min_qty, cfg.min_cost, cfg.c_mult,
                      cfg.wallet_exposure_limit[2], cfg.secondary_allocation[2],
                      cfg.auto_unstuck_wallet_exposure_threshold[2])
               THEN [plan EXCEPT !.op = "calc_short_entry_grid", !.raised = TRUE]
               ELSE
               [plan EXCEPT
                  !.op = "calc_short_entry_grid",
                  !.orders =
                      calc_short_entry_grid(
                          plan.balance, -plan.psize, plan.pprice, plan.quote,
                          plan.ema_band_upper, cfg.inverse, cfg.do_short, cfg.qty_step,
                          cfg.price_step, cfg.min_qty, cfg.min_cost, cfg.c_mult,
                          cfg.grid_span[2], cfg.wallet_exposure_limit[2],
                          cfg.max_n_entry_orders[2], cfg.initial_qty_pct[2],
                          cfg.initial_eprice_ema_dist[2], cfg.eprice_pprice_diff[2],
                          cfg.secondary_allocation[2], cfg.secondary_pprice_diff[2],
                          cfg.eprice_exp_base[2],
                          cfg.auto_unstuck_wallet_exposure_threshold[2],
                          cfg.auto_unstuck_ema_dist[2])]
    /\ UNCHANGED simv

PlanLongCloses ==
    /\ plan.op = "args"
    /\ plan' = [plan EXCEPT
                  !.op = "calc_long_close_grid",
                  !.orders =
                      calc_long_close_grid(
                          plan.balance, plan.psize, plan.pprice, plan.quote,
                          plan.ema_band_upper, cfg.inverse, cfg.qty_step, cfg.price_step,
                          cfg.min_qty, cfg.min_cost, cfg.c_mult,
                          cfg.wallet_exposure_limit[1], cfg.min_markup[1],
                          cfg.markup_range[1], cfg.n_close_orders[1],
                          cfg.auto_unstuck_wallet_exposure_threshold[1],
                          cfg.auto_unstuck_ema_dist[1])]
    /\ UNCHANGED simv

PlanShortCloses ==
    /\ plan.op = "args"
    /\ plan' = [plan EXCEPT
                  !.op = "calc_short_close_grid",
                  !.orders =
                      calc_short_close_grid(
                          plan.balance, -plan.psize, plan.pprice, plan.quote,
                          plan.ema_band_lower, cfg.spot, cfg.inverse, cfg.qty_step,
                          cfg.price_step, cfg.min_qty, cfg.min_cost, cfg.c_mult,
                          cfg.wallet_exposure_limit[2], cfg.initial_qty_pct[2],
                          cfg.min_markup[2], cfg.markup_range[2], cfg.n_close_orders[2],
                          cfg.auto_unstuck_wallet_exposure_threshold[2],
                          cfg.auto_unstuck_ema_dist[2])]
    /\ UNCHANGED simv

NextPlan == PlanLongEntries \/ PlanShortEntries \/ PlanLongCloses \/ PlanShortCloses

SpecPlan == InitPlan /\ [][NextPlan]_vars

(***************************************************************************)
(* Properties of a simulation run (specification Spec).                    *)
(***************************************************************************)
BankruptcyTypes == {"long_bankruptcy", "short_bankruptcy"}
LongFillTypes ==
    {"long_ientry", "long_primary_rentry", "long_secondary_rentry", "long_unstuck_entry",
     "long_nclose", "long_unstuck_close"}
ShortFillTypes ==
    {"short_ientry", "short_primary_rentry", "short_secondary_rentry", "short_unstuck_entry",
     "short_nclose", "short_unstuck_close"}
UnstuckTypes ==
    {"long_unstuck_entry", "long_unstuck_close", "short_unstuck_entry", "short_unstuck_close"}

\* the timestamp of the latest fill whose type is in types, -1 when there is none
LastFillTime(types) ==
    LET idx == {i \in 1..Len(fills) : fills[i].type \in types}
    IN  IF idx = {} THEN -1
        ELSE fills[CHOOSE i \in idx : \A j \in idx : j <= i].timestamp

\* C1: once a fill has been applied, a side whose psize is 0 has pprice 0: in the state, in
\* every fill record and in every stats record
C1_FlatSideHasNoPrice ==
    /\ fills # <<>> => /\ (long_psize = 0 => long_pprice = 0)
                       /\ (short_psize = 0 => short_pprice = 0)
    /\ \A i \in 1..Len(fills) : fills[i].psize = 0 => fills[i].pprice = 0
    /\ \A i \in 1..Len(stats) : /\ (stats[i].long_psize = 0 => stats[i].long_pprice = 0)
                                /\ (stats[i].short_psize = 0 => stats[i].short_pprice = 0)

\* C2, as stated: whenever closest_bkr is below 0.06 at a processed tick the run liquidates,
\* so that past the tick's equity check it is on its way to the liquidation or has returned
\* from it
C2_NearBankruptcyAlwaysLiquidates ==
    closest_bkr < 60 => pc \in {"refresh", "liquidation", "return_bankruptcy"}

\* C2, amended: when closest_bkr is below 0.06 at a processed tick, either the run has
\* returned at that tick's equity check, or the tick's liquidation check appends exactly one
\* bankruptcy fill for each side with a position and none for a flat side, each with
\* balance, equity, psize and pprice 0, no order was matched at that tick, and the run has
\* returned: no step follows, so that no fill and no stats record is added
C2_LiquidationEndsRun ==
    /\ [](closest_bkr < 60 =>
             pc \in {"refresh", "liquidation", "return_bankruptcy", "return_low_equity"})
    /\ [][/\ pc # "return_bankruptcy"
          /\ (pc = "liquidation" /\ closest_bkr < 60) =>
                LET new == (Len(fills) + 1)..Len(fills')
                IN  /\ pc' = "return_bankruptcy"
                    /\ stats' = stats
                    /\ Len(fills') >= Len(fills)
                    /\ SubSeq(fills', 1, Len(fills)) = fills
                    /\ \A i \in new : /\ fills'[i].type \in BankruptcyTypes
                                      /\ fills'[i].balance = 0 /\ fills'[i].equity = 0
                                      /\ fills'[i].psize = 0 /\ fills'[i].pprice = 0
                                      /\ fills'[i].k = k
                    /\ Cardinality({i \in new : fills'[i].type = "long_bankruptcy"})
                          = IF long_psize # 0 THEN 1 ELSE 0
                    /\ Cardinality({i \in new : fills'[i].type = "short_bankruptcy"})
                          = IF short_psize # 0 THEN 1 ELSE 0
                    /\ \A i \in 1..Len(fills) : fills[i].k # k]_vars

\* a run liquidated a long position: its last fill is a long_bankruptcy fill that follows
\* the entry
C2_Liquidated ==
    /\ pc = "return_bankruptcy"
    /\ Len(fills) >= 2
    /\ fills[Len(fills)].type = "long_bankruptcy"
    /\ closest_bkr < 60

\* C3: at the first refresh of a side's ladders after a fill of that side, if the side's
\* wallet exposure exceeds wallet_exposure_limit * 1.1 then the refreshed ladders hold an
\* unstuck order
C3_ExposureWithinLimit ==
    [][pc = "refresh" =>
          /\ ( /\ LastFillTime(LongFillTypes) >= 0
               /\ next_entry_grid_update_ts_long
                     <= LastFillTime(LongFillTypes) + cfg.latency_simulation_ms
               /\ timestamp >= next_entry_grid_update_ts_long
               /\ timestamp >= next_close_grid_update_ts_long
               /\ long_wallet_exposure * 10 > cfg.wallet_exposure_limit[1] * 11 )
             => \/ \E i \in 1..Len(long_entries') : long_entries'[i][3] \in UnstuckTypes
                \/ \E i \in 1..Len(long_closes') : long_closes'[i][3] \in UnstuckTypes
          /\ ( /\ LastFillTime(ShortFillTypes) >= 0
               /\ next_entry_grid_update_ts_short
                     <= LastFillTime(ShortFillTypes) + cfg.latency_simulation_ms
               /\ timestamp >= next_entry_grid_update_ts_short
               /\ timestamp >= next_close_grid_update_ts_short
               /\ short_wallet_exposure * 10 > cfg.wallet_exposure_limit[2] * 11 )
             => \/ \E i \in 1..Len(short_entries') : short_entries'[i][3] \in UnstuckTypes
                \/ \E i \in 1..Len(short_closes') : short_closes'[i][3] \in UnstuckTypes]_vars

\* C4: the equity of every fill other than a bankruptcy fill is the balance plus the
\* unrealised PnL of both sides at the tick's price, with the positions the fill leaves
C4_FillEquity ==
    [][(fills' # fills /\ fills'[Len(fills')].type \notin BankruptcyTypes) =>
          fills'[Len(fills')].equity
              = balance' + calc_long_pnl(long_pprice', price, long_psize', cfg.inverse,
                                         cfg.c_mult)
                         + calc_short_pnl(short_pprice', price, short_psize', cfg.inverse,
                                          cfg.c_mult)]_vars

\* C5: closest_bkr is 1.0 before the first tick and never rises: each stats record holds a
\* value no greater than that of every earlier record, and the current value is no greater
\* than any recorded one
C5_ClosestBkrNonIncreasing ==
    /\ closest_bkr <= S
    /\ k = max_span(cfg) - 1 => closest_bkr = S
    /\ \A i, j \in 1..Len(stats) : i <= j => stats[j].closest_bkr <= stats[i].closest_bkr
    /\ \A i \in 1..Len(stats) : closest_bkr <= stats[i].closest_bkr

\* two stats records, the later with a closer bankruptcy
C5_Closer ==
    /\ Len(stats) >= 2
    /\ stats[2].closest_bkr < stats[1].closest_bkr

\* C6: adjacent stats records are at least 60000 ms apart, and a traded tick appends a stats
\* record, with the tick's timestamp, exactly when the timestamp has reached
\* next_stats_update and equity / starting_balance is not below 0.2; no other step appends
C6_StatsEveryMinute ==
    /\ [](\A i \in 2..Len(stats) : stats[i].timestamp >= stats[i - 1].timestamp + 60000)
    /\ [][/\ pc = "stats" =>
                (stats' # stats <=> /\ timestamp >= next_stats_update
                                    /\ ~(equity' * 5 < cfg.starting_balance))
          /\ stats' # stats =>
                /\ pc = "stats"
                /\ Len(stats') = Len(stats) + 1
                /\ SubSeq(stats', 1, Len(stats)) = stats
                /\ stats'[Len(stats')].timestamp = timestamp]_vars

\* two stats records, and a traded tick after them that appended none
C6_TickWithoutRecord ==
    /\ Len(stats) >= 2
    /\ pc = "refresh"
    /\ stats[Len(stats)].timestamp < timestamp

\* C7: a run that returns because equity / starting_balance < 0.2 returns a stats record of
\* the tick it returns at
C7_StatsOnEarlyTermination ==
    pc = "return_low_equity" =>
        stats # <<>> /\ stats[Len(stats)].timestamp = timestamp

(***************************************************************************)
(* Properties of the planners (specification SpecPlan).                    *)
(***************************************************************************)
\* C8: every order with a tag has the sign of its planner: positive for long entries and
\* short closes, negative for long closes and short entries
C8_SignDiscipline ==
    \A i \in 1..Len(plan.orders) :
        plan.orders[i][3] # "" =>
            CASE plan.op = "calc_long_entry_grid" -> plan.orders[i][1] > 0
              [] plan.op = "calc_long_close_grid" -> plan.orders[i][1] < 0
              [] plan.op = "calc_short_entry_grid" -> plan.orders[i][1] < 0
              [] plan.op = "calc_short_close_grid" -> plan.orders[i][1] > 0
              [] OTHER -> TRUE

\* C9: for psize = 0 an entry planner returns one order: the empty order when the side is
\* disabled, else the initial entry at min(highest_bid, round_dn(ema_band_lower * (1 -
\* initial_eprice_ema_dist))) for long, max(lowest_ask, round_up(ema_band_upper * (1 +
\* initial_eprice_ema_dist))) for short, of size max(min_entry_qty(price),
\* round_(cost_to_qty(balance * wallet_exposure_limit * initial_qty_pct, price)))
C9_FlatSideInitialEntry ==
    LET Qty(p, i) ==
            Max(calc_min_entry_qty(p, cfg.inverse, cfg.qty_step, cfg.min_qty,
                                   cfg.min_cost),
                round_(cost_to_qty(FMul(FMul(plan.balance, cfg.wallet_exposure_limit[i]),
                                        cfg.initial_qty_pct[i]),
                                   p, cfg.inverse, cfg.c_mult), cfg.qty_step))
        long_price ==
            Min(plan.quote,
                round_dn(FMul(plan.ema_band_lower, S - cfg.initial_eprice_ema_dist[1]),
                         cfg.price_step))
        short_price ==
            Max(plan.quote,
                round_up(FMul(plan.ema_band_upper, S + cfg.initial_eprice_ema_dist[2]),
                         cfg.price_step))
    IN  /\ (plan.op = "calc_long_entry_grid" /\ plan.psize = 0) =>
              plan.orders = IF cfg.do_long
                            THEN <<<<Qty(long_price, 1), long_price, "long_ientry">>>>
                            ELSE <<<<0, 0, "">>>>
        /\ (plan.op = "calc_short_entry_grid" /\ plan.psize = 0) =>
              plan.orders = IF cfg.do_short
                            THEN <<<<-Qty(short_price, 2), short_price, "short_ientry">>>>
                            ELSE <<<<0, 0, "">>>>

\* the long planner, flat and enabled, placed its initial entry at the highest bid
C9_InitialEntryAtBid ==
    /\ plan.op = "calc_long_entry_grid"
    /\ plan.psize = 0
    /\ cfg.do_long
    /\ Len(plan.orders) = 1
    /\ plan.orders[1][3] = "long_ientry"
    /\ plan.orders[1][2] = plan.quote
    /\ plan.orders[1][1] > 0

\* C10: with a position whose wallet exposure is at or above wallet_exposure_limit, the
\* long and the short entry planner return the single empty order, with auto-unstuck on
\* or off
C10_NoEntryAtExposureLimit ==
    /\ ( /\ plan.op = "calc_long_entry_grid"
         /\ plan.psize # 0
         /\ FDiv(qty_to_cost(plan.psize, plan.pprice, cfg.inverse, cfg.c_mult), plan.balance)
               >= cfg.wallet_exposure_limit[1] )
       => plan.orders = <<<<0, 0, "">>>>
    /\ ( /\ plan.op = "calc_short_entry_grid"
         /\ plan.psize # 0
         /\ FDiv(qty_to_cost(-plan.psize, plan.pprice, cfg.inverse, cfg.c_mult),
                 plan.balance)
               >= cfg.wallet_exposure_limit[2] )
       => plan.orders = <<<<0, 0, "">>>>

\* the long planner returned the empty order for a position exactly at the limit, with
\* auto-unstuck on
C10_AtLimitWithUnstuck ==
    /\ plan.op = "calc_long_entry_grid"
    /\ plan.psize # 0
    /\ cfg.do_long
    /\ cfg.auto_unstuck_wallet_exposure_threshold[1] # 0
    /\ FDiv(qty_to_cost(plan.psize, plan.pprice, cfg.inverse, cfg.c_mult), plan.balance)
          = cfg.wallet_exposure_limit[1]
    /\ plan.orders = <<<<0, 0, "">>>>

\* C11: no order with a tag crosses the opposing best quote: a long entry is priced at or
\* below highest_bid and a short entry at or above lowest_ask, a long close at or above
\* lowest_ask and a short close at or below highest_bid
C11_NoOrderCrossesQuote ==
    \A i \in 1..Len(plan.orders) :
        plan.orders[i][3] # "" =>
            CASE plan.op = "calc_long_entry_grid" -> plan.orders[i][2] <= plan.quote
              [] plan.op = "calc_short_entry_grid" -> plan.orders[i][2] >= plan.quote
              [] plan.op = "calc_long_close_grid" -> plan.orders[i][2] >= plan.quote
              [] plan.op = "calc_short_close_grid" -> plan.orders[i][2] <= plan.quote
              [] OTHER -> TRUE

\* the long close planner, with every markup price below lowest_ask, closed the position
\* at lowest_ask
C11_CloseAtAsk ==
    /\ plan.op = "calc_long_close_grid"
    /\ plan.psize # 0
    /\ round_up(FMul(plan.pprice, S + cfg.min_markup[1] + cfg.markup_range[1]),
                cfg.price_step) < plan.quote
    /\ plan.orders = <<<<-plan.psize, plan.quote, "long_nclose">>>>

\* C12: every order with a tag has a qty that is a multiple of qty_step and a price that is
\* a multiple of price_step
C12_OrdersOnStep ==
    \A i \in 1..Len(plan.orders) :
        plan.orders[i][3] # "" =>
            /\ plan.orders[i][1] % cfg.qty_step = 0
            /\ plan.orders[i][2] % cfg.price_step = 0

(***************************************************************************)
(* Position accounting on its own: a position is opened from flat with a   *)
(* fill of qty q at price p, then reduced by a fill of -q at price p2.     *)
(***************************************************************************)
\* fill sizes: on and off the qty grid, long and short, below half a step
PositionQtys == {40, 50, 100, 140, 150, 250, 1000, 1100, 51800, -50, -100, -150, -250, -1100}
PositionPrices == {18000, 19950, 21000}
PositionSteps == {1, 100, 1000}

InitPosition ==
    /\ \E c \in Configs : InitRun(c)
    /\ \E q \in PositionQtys, p \in PositionPrices, p2 \in PositionPrices,
          step \in PositionSteps :
          plan = [op |-> "position", qty |-> q, price |-> p, close_price |-> p2,
                  qty_step |-> step, opened |-> <<0, 0>>, closed |-> <<0, 0>>]

OpenPosition ==
    /\ plan.op = "position"
    /\ plan' = [plan EXCEPT
                  !.op = "opened",
                  !.opened = calc_new_psize_pprice(0, 0, plan.qty, plan.price,
                                                   plan.qty_step)]
    /\ UNCHANGED simv

ClosePosition ==
    /\ plan.op = "opened"
    /\ plan' = [plan EXCEPT
                  !.op = "closed",
                  !.closed = calc_new_psize_pprice(plan.opened[1], plan.opened[2],
                                                   -plan.qty, plan.close_price,
                                                   plan.qty_step)]
    /\ UNCHANGED simv

NextPosition == OpenPosition \/ ClosePosition

SpecPosition == InitPosition /\ [][NextPosition]_vars

C14_SecondaryAllocationRejected ==
    /\ (plan.op = "calc_long_entry_grid" /\ cfg.do_long /\ cfg.secondary_allocation[1] >= S)
          => (plan.raised /\ plan.orders = <<>>)
    /\ (plan.op = "calc_short_entry_grid" /\ cfg.do_short /\ cfg.secondary_allocation[2] >= S)
          => (plan.raised /\ plan.orders = <<>>)

(***************************************************************************)
(* Two runs of njit_backtest on one tick array with one set of parameters: *)
(* the array is drawn once, the first run's fills and stats are kept when  *)
(* it returns, and the second run starts from fresh locals.                *)
(***************************************************************************)
TwinTicks ==
    { <<1000, 1000, 19000>>, <<1000, 1000, 21000>>, <<60000, 1000, 17500>>,
      <<600000, 1000, 20000>>, <<1000, 0, 20000>> }

Returned == pc \in {"return_end", "return_low_equity", "return_bankruptcy"}

InitTwin ==
    /\ \E c \in Configs : InitRun(c)
    /\ \E ticks \in [1..MaxTicks -> TwinTicks] :
          plan = [op |-> "first_run", ticks |-> ticks, fills |-> <<>>, stats |-> <<>>,
                  closest_bkr |-> S]

\* line 1913: the next tick of the array
TwinTick ==
    /\ pc = "next"
    /\ k < max_span(cfg) - 1 + Len(plan.ticks)
    /\ ReadTick(plan.ticks[k - max_span(cfg) + 2])

\* line 2398: the array is exhausted
TwinFinish ==
    /\ k = max_span(cfg) - 1 + Len(plan.ticks)
    /\ Finish

\* the second call: what the first returned is kept aside, and the locals are initialised
\* as by every call
RestartRun ==
    /\ Returned
    /\ plan.op = "first_run"
    /\ plan' = [plan EXCEPT !.op = "second_run", !.fills = fills, !.stats = stats,
                            !.closest_bkr = closest_bkr]
    /\ cfg' = cfg
    /\ pc' = "next"
    /\ k' = max_span(cfg) - 1
    /\ timestamp' = 0
    /\ qty' = S
    /\ price' = StartPrice
    /\ prev_price' = StartPrice
    /\ balance' = cfg.starting_balance
    /\ balance_long' = cfg.starting_balance
    /\ balance_short' = cfg.starting_balance
    /\ equity' = cfg.starting_balance
    /\ long_psize' = 0 /\ long_pprice' = 0 /\ short_psize' = 0 /\ short_pprice' = 0
    /\ fills' = <<>>
    /\ stats' = <<>>
    /\ long_entries' = <<EmptyOrder>> /\ long_closes' = <<EmptyOrder>>
    /\ short_entries' = <<EmptyOrder>> /\ short_closes' = <<EmptyOrder>>
    /\ bkr_price' = 0
    /\ next_entry_grid_update_ts_long' = 0 /\ next_entry_grid_update_ts_short' = 0
    /\ next_close_grid_update_ts_long' = 0 /\ next_close_grid_update_ts_short' = 0
    /\ next_stats_update' = 0
    /\ closest_bkr' = S
    /\ emas_long' = IF cfg.do_long
                    THEN calc_emas_last([i \in 1..max_span(cfg) |-> StartPrice],
                                        ClampSpans(spans_long(cfg)))
                    ELSE <<0, 0, 0>>
    /\ emas_short' = IF cfg.do_short
                     THEN calc_emas_last([i \in 1..max_span(cfg) |-> StartPrice],
                                         ClampSpans(spans_short(cfg)))
                     ELSE <<0, 0, 0>>
    /\ long_wallet_exposure' = 0
    /\ short_wallet_exposure' = 0

NextTwin ==
    \/ TwinTick
    \/ TwinFinish
    \/ RestartRun
    \/ UpdateStats
    \/ RefreshLadders
    \/ Liquidation
    \/ FillLongEntry
    \/ FillShortEntry
    \/ FillLongClose
    \/ FillShortClose
    \/ LeaveLoop
    \/ PullUpdatesForward

SpecTwin == InitTwin /\ [][NextTwin]_vars

C16_LadderRefresh ==
    /\ [](pc \in {"long_entries", "short_entries", "long_closes", "short_closes"} =>
             /\ timestamp < next_entry_grid_update_ts_long
             /\ timestamp < next_entry_grid_update_ts_short
             /\ timestamp < next_close_grid_update_ts_long
             /\ timestamp < next_close_grid_update_ts_short)
    /\ [][LET Refreshed(next, next_after, ladder, ladder_after, planned) ==
                  IF timestamp >= next
                  THEN next_after = timestamp + 600000 /\ ladder_after = planned
                  ELSE next_after = next /\ ladder_after = ladder
          IN
          /\ pc = "refresh" =>
                /\ Refreshed(next_entry_grid_update_ts_long,
                             next_entry_grid_update_ts_long', long_entries, long_entries',
                             IF cfg.do_long THEN LongEntries(cfg) ELSE <<<<0, 0, "">>>>)
                /\ Refreshed(next_entry_grid_update_ts_short,
                             next_entry_grid_update_ts_short', short_entries,
                             short_entries',
                             IF cfg.do_short THEN ShortEntries(cfg) ELSE <<<<0, 0, "">>>>)
                /\ Refreshed(next_close_grid_update_ts_long,
                             next_close_grid_update_ts_long', long_closes, long_closes',
                             IF cfg.do_long THEN LongCloses(cfg) ELSE <<<<0, 0, "">>>>)
                /\ Refreshed(next_close_grid_update_ts_short,
                             next_close_grid_update_ts_short', short_closes, short_closes',
                             IF cfg.do_short THEN ShortCloses(cfg) ELSE <<<<0, 0, "">>>>)
          /\ (pc = "refresh" /\ Len(stats) = 1 /\ stats[1].timestamp = timestamp) =>
                /\ next_entry_grid_update_ts_long' = timestamp + 600000
                /\ next_entry_grid_update_ts_short' = timestamp + 600000
                /\ next_close_grid_update_ts_long' = timestamp + 600000
                /\ next_close_grid_update_ts_short' = timestamp + 600000
          /\ pc # "refresh" =>
                /\ next_entry_grid_update_ts_long' <= next_entry_grid_update_ts_long
                /\ next_entry_grid_update_ts_short' <= next_entry_grid_update_ts_short
                /\ next_close_grid_update_ts_long' <= next_close_grid_update_ts_long
                /\ next_close_grid_update_ts_short' <= next_close_grid_update_ts_short]_vars

\* a later traded tick rebuilt the long entry ladder and kept the short close ladder
C16_PartialRefresh ==
    /\ pc = "liquidation"
    /\ stats # <<>>
    /\ stats[1].timestamp < timestamp
    /\ next_entry_grid_update_ts_long = timestamp + 600000
    /\ next_close_grid_update_ts_short > timestamp
    /\ next_close_grid_update_ts_short < timestamp + 600000

\* C17: a step that appends a fill other than a bankruptcy fill is a step of one matching
\* loop.  The fill carries qty, price and tag of the head order of that loop's ladder and
\* the head is removed; the tick's price crosses the order's price strictly (below a long
\* entry or short close, above a short entry or long close); a close fills only while its
\* side holds a position; and apart from the refresh step a ladder changes only by losing
\* its head to a fill.
C17_FillsHeadOrder ==
    [][/\ (fills' # fills /\ pc' # "return_bankruptcy") =>
             LET f == fills'[Len(fills')]
                 Head1(ladder, ladder_after) ==
                     /\ ladder # <<>>
                     /\ f.qty = ladder[1][1] /\ f.price = ladder[1][2]
                     /\ f.type = ladder[1][3]
                     /\ ladder_after = Tail(ladder)
             IN  /\ Len(fills') = Len(fills) + 1
                 /\ f.k = k /\ f.timestamp = timestamp
                 /\ CASE pc = "long_entries" ->
                             /\ Head1(long_entries, long_entries')
                             /\ price < f.price
                      [] pc = "short_entries" ->
                             /\ Head1(short_entries, short_entries')
                             /\ price > f.price
                      [] pc = "long_closes" ->
                             /\ Head1(long_closes, long_closes')
                             /\ long_psize # 0 /\ price > f.price
                      [] pc = "short_closes" ->
                             /\ Head1(short_closes, short_closes')
                             /\ short_psize # 0 /\ price < f.price
                      [] OTHER -> FALSE
       /\ (fills' = fills /\ pc # "refresh") =>
             UNCHANGED <<long_entries, short_entries, long_closes, short_closes>>]_vars

\* two orders of the long close ladder have been filled at one tick, the nearer one first
C17_TwoFillsOfOneLadder ==
    /\ Len(fills) >= 2
    /\ fills[Len(fills)].k = fills[Len(fills) - 1].k
    /\ fills[Len(fills)].type = "long_nclose"
    /\ fills[Len(fills) - 1].type = "long_nclose"
    /\ fills[Len(fills) - 1].price < fills[Len(fills)].price
    /\ fills[Len(fills)].price < price

\* C18: reading a tick whose qty is 0 changes, besides the tick itself, only the EMAs of the
\* enabled sides: balance, equity, both positions, bkr_price, closest_bkr, the five
\* next-update timestamps, the four ladders, fills and stats are unchanged and the loop goes
\* on to the next tick; neither early return happens at a tick whose qty is 0.
C18_NoTradeTick ==
    /\ [][(pc = "next" /\ k' = k + 1 /\ qty' = 0) =>
             /\ pc' = "next"
             /\ UNCHANGED <<balance, balance_long, balance_short, equity, long_psize,
                            long_pprice, short_psize, short_pprice, long_wallet_exposure,
                            short_wallet_exposure, bkr_price, closest_bkr,
                            next_entry_grid_update_ts_long, next_entry_grid_update_ts_short,
                            next_close_grid_update_ts_long, next_close_grid_update_ts_short,
                            next_stats_update, long_entries, short_entries, long_closes,
                            short_closes, fills, stats>>
             /\ ~cfg.do_long => UNCHANGED emas_long
             /\ ~cfg.do_short => UNCHANGED emas_short]_vars
    /\ [](pc \in {"return_low_equity", "return_bankruptcy"} => qty # 0)

\* a tick without volume has been read while a position was open and a ladder was due
C18_NoTradeTickWithPosition ==
    /\ pc = "next"
    /\ qty = 0
    /\ long_psize # 0
    /\ timestamp >= next_entry_grid_update_ts_long
    /\ emas_long[1] # StartPrice

(***************************************************************************)
(* Runs whose ticks lie closer together than the simulated latency.  The   *)
(* tick array is drawn once and kept, so that the timestamp of every tick  *)
(* of the run can be told in every state.                                  *)
(***************************************************************************)
\* the ticks processed after the EMA burn-in
LatencyLen == 4
\* ticks one or two seconds apart
LatencyTicks ==
    { <<1000, 1000, 19000>>, <<1000, 1000, 21000>>, <<2000, 1000, 19000>>,
      <<2000, 1000, 21000>>, <<1000, 0, 20000>> }

InitLatency ==
    \* latency_simulation_ms of two seconds
    /\ InitRun([HedgeConfig EXCEPT !.latency_simulation_ms = 2000])
    /\ \E ticks \in [1..LatencyLen -> LatencyTicks] : plan = [op |-> "run", ticks |-> ticks]

NextLatency ==
    \/ TwinTick
    \/ TwinFinish
    \/ UpdateStats
    \/ RefreshLadders
    \/ Liquidation
    \/ FillLongEntry
    \/ FillShortEntry
    \/ FillLongClose
    \/ FillShortClose
    \/ LeaveLoop
    \/ PullUpdatesForward

SpecLatency == InitLatency /\ [][NextLatency]_vars

\* C19: a fill on a side at a tick with timestamp t leaves the side's entry and close next
\* updates at or below t + latency_simulation_ms, and a next update is raised by no step
\* but a rebuild of its ladder.  At the first traded tick at or after t + latency that
\* follows the side's latest fill, each ladder of the side is rebuilt before matching,
\* unless it has been rebuilt at a tick between the two: its next update then lies after
\* t + latency, which only a rebuild after the fill brings about.
C19_RebuiltAfterFill ==
    [][LET latency == cfg.latency_simulation_ms
           RECURSIVE TickTime(_)
           TickTime(i) == IF i = 0 THEN 0 ELSE TickTime(i - 1) + plan.ticks[i][1]
           Index(at) == at - max_span(cfg) + 1
           Latest(side) ==
               LET of_side == {i \in 1..Len(fills) :
                                  fills[i].type \in {side \o "_ientry",
                                                     side \o "_primary_rentry",
                                                     side \o "_secondary_rentry",
                                                     side \o "_unstuck_entry",
                                                     side \o "_nclose",
                                                     side \o "_unstuck_close"}}
               IN  IF of_side = {} THEN 0
                   ELSE CHOOSE i \in of_side : \A j \in of_side : j <= i
           FirstAfter(i) ==
               /\ pc = "refresh"
               /\ i # 0
               /\ timestamp >= fills[i].timestamp + latency
               /\ \A j \in (Index(fills[i].k) + 1)..(Index(k) - 1) :
                     plan.ticks[j][2] = 0 \/ TickTime(j) < fills[i].timestamp + latency
           Rebuilt(i, next) == timestamp >= next \/ next > fills[i].timestamp + latency
           Raised(next, next_after) == next_after > next => pc = "refresh" /\ timestamp >= next
       IN  /\ (pc \in {"long_entries", "long_closes"} /\ fills' # fills) =>
                 /\ next_entry_grid_update_ts_long' <= timestamp + latency
                 /\ next_close_grid_update_ts_long' <= timestamp + latency
           /\ (pc \in {"short_entries", "short_closes"} /\ fills' # fills) =>
                 /\ next_entry_grid_update_ts_short' <= timestamp + latency
                 /\ next_close_grid_update_ts_short' <= timestamp + latency
           /\ Raised(next_entry_grid_update_ts_long, next_entry_grid_update_ts_long')
           /\ Raised(next_close_grid_update_ts_long, next_close_grid_update_ts_long')
           /\ Raised(next_entry_grid_update_ts_short, next_entry_grid_update_ts_short')
           /\ Raised(next_close_grid_update_ts_short, next_close_grid_update_ts_short')
           /\ FirstAfter(Latest("long")) =>
                 /\ Rebuilt(Latest("long"), next_entry_grid_update_ts_long)
                 /\ Rebuilt(Latest("long"), next_close_grid_update_ts_long)
           /\ FirstAfter(Latest("short")) =>
                 /\ Rebuilt(Latest("short"), next_entry_grid_update_ts_short)
                 /\ Rebuilt(Latest("short"), next_close_grid_update_ts_short)]_vars

\* C19 as stated: at the first traded tick at or after t + latency that follows a side's
\* latest fill, both ladders of the side are rebuilt
C19_RebuiltAtFirstTickAfterLatency ==
    [][LET latency == cfg.latency_simulation_ms
           RECURSIVE TickTime(_)
           TickTime(i) == IF i = 0 THEN 0 ELSE TickTime(i - 1) + plan.ticks[i][1]
           Index(at) == at - max_span(cfg) + 1
           Latest(side) ==
               LET of_side == {i \in 1..Len(fills) :
                                  fills[i].type \in {side \o "_ientry",
                                                     side \o "_primary_rentry",
                                                     side \o "_secondary_rentry",
                                                     side \o "_unstuck_entry",
                                                     side \o "_nclose",
                                                     side \o "_unstuck_close"}}
               IN  IF of_side = {} THEN 0
                   ELSE CHOOSE i \in of_side : \A j \in of_side : j <= i
           FirstAfter(i) ==
               /\ pc = "refresh"
               /\ i # 0
               /\ timestamp >= fills[i].timestamp + latency
               /\ \A j \in (Index(fills[i].k) + 1)..(Index(k) - 1) :
                     plan.ticks[j][2] = 0 \/ TickTime(j) < fills[i].timestamp + latency
       IN  /\ FirstAfter(Latest("long")) =>
                 /\ timestamp >= next_entry_grid_update_ts_long
                 /\ timestamp >= next_close_grid_update_ts_long
           /\ FirstAfter(Latest("short")) =>
                 /\ timestamp >= next_entry_grid_update_ts_short
                 /\ timestamp >= next_close_grid_update_ts_short]_vars

\* the tick after a long fill came a latency later and rebuilt both long ladders
C19_BothRebuilt ==
    /\ pc = "liquidation"
    /\ fills # <<>>
    /\ fills[Len(fills)].type = "long_ientry"
    /\ fills[Len(fills)].k = k - 1
    /\ timestamp = fills[Len(fills)].timestamp + cfg.latency_simulation_ms
    /\ next_entry_grid_update_ts_long = timestamp + 600000
    /\ next_close_grid_update_ts_long = timestamp + 600000

\* C20: the last step of a traded tick leaves, for each enabled side: its entry next update
\* at or below timestamp + latency_simulation_ms when the side is flat; its close next
\* update at or below timestamp + latency + 2500 when it holds a position and the price is
\* on the profit side of pprice; and both next updates at or below timestamp + latency +
\* 15000 when it holds a position, the price is not on the profit side of pprice, and its
\* wallet exposure has reached the auto-unstuck threshold.
C20_UpdatesPulledForward ==
    [][pc = "bias" =>
          LET lat == timestamp + cfg.latency_simulation_ms
          IN  /\ (cfg.do_long /\ long_psize = 0) => next_entry_grid_update_ts_long' <= lat
              /\ (cfg.do_long /\ long_psize # 0 /\ price > long_pprice) =>
                    next_close_grid_update_ts_long' <= lat + 2500
              /\ (/\ cfg.do_long /\ long_psize # 0 /\ ~(price > long_pprice)
                  /\ long_wallet_exposure
                         >= long_wallet_exposure_auto_unstuck_threshold(cfg)) =>
                    /\ next_entry_grid_update_ts_long' <= lat + 15000
                    /\ next_close_grid_update_ts_long' <= lat + 15000
              /\ (cfg.do_short /\ short_psize = 0) => next_entry_grid_update_ts_short' <= lat
              /\ (cfg.do_short /\ short_psize # 0 /\ price < short_pprice) =>
                    next_close_grid_update_ts_short' <= lat + 2500
              /\ (/\ cfg.do_short /\ short_psize # 0 /\ ~(price < short_pprice)
                  /\ short_wallet_exposure
                         >= short_wallet_exposure_auto_unstuck_threshold(cfg)) =>
                    /\ next_entry_grid_update_ts_short' <= lat + 15000
                    /\ next_close_grid_update_ts_short' <= lat + 15000]_vars

\* C20 as stated: whenever the wallet exposure of a side has reached the auto-unstuck
\* threshold, the last step of a traded tick leaves both next updates of the side at or
\* below timestamp + latency + 15000
C20_StuckSidePulledForward ==
    [][pc = "bias" =>
          LET lat == timestamp + cfg.latency_simulation_ms
          IN  /\ (/\ cfg.do_long
                  /\ long_wallet_exposure
                         >= long_wallet_exposure_auto_unstuck_threshold(cfg)) =>
                    /\ next_entry_grid_update_ts_long' <= lat + 15000
                    /\ next_close_grid_update_ts_long' <= lat + 15000
              /\ (/\ cfg.do_short
                  /\ short_wallet_exposure
                         >= short_wallet_exposure_auto_unstuck_threshold(cfg)) =>
                    /\ next_entry_grid_update_ts_short' <= lat + 15000
                    /\ next_close_grid_update_ts_short' <= lat + 15000]_vars

\* a traded tick has ended with a long position at its auto-unstuck threshold and under
\* water, both its ladders rebuilt at the tick and their next updates pulled forward
C20_StuckLong ==
    /\ pc = "next"
    /\ qty # 0
    /\ long_psize # 0
    /\ ~(price > long_pprice)
    /\ long_wallet_exposure >= long_wallet_exposure_auto_unstuck_threshold(cfg)
    /\ next_entry_grid_update_ts_long = timestamp + cfg.latency_simulation_ms + 15000
    /\ next_close_grid_update_ts_long = timestamp + cfg.latency_simulation_ms + 15000

\* C21: the run returns for low equity only from the stats step of a tick whose timestamp
\* has reached next_stats_update, with the equity computed there below a fifth of the
\* starting balance; the step leaves fills, stats, ladders, next updates, positions and
\* balance as they were, so what is returned holds no fill of that tick; and the stats step
\* of a tick that is not due goes on to the refresh.
C21_LowEquityReturn ==
    /\ [][/\ pc' = "return_low_equity" =>
                /\ pc = "stats"
                /\ timestamp >= next_stats_update
                /\ equity' = balance + calc_upnl(long_psize, long_pprice, short_psize,
                                                 short_pprice, price, cfg.inverse, cfg.c_mult)
                /\ equity' * 5 < cfg.starting_balance
                /\ UNCHANGED <<fills, stats, next_stats_update, balance, long_psize,
                               long_pprice, short_psize, short_pprice, long_entries,
                               short_entries, long_closes, short_closes,
                               next_entry_grid_update_ts_long, next_close_grid_update_ts_long,
                               next_entry_grid_update_ts_short,
                               next_close_grid_update_ts_short>>
          /\ (pc = "stats" /\ timestamp < next_stats_update) =>
                pc' = "refresh" /\ UNCHANGED <<equity, stats>>
          /\ (pc = "stats" /\ timestamp >= next_stats_update) =>
                (pc' = "return_low_equity") = (equity' * 5 < cfg.starting_balance)]_vars
    /\ [](pc = "return_low_equity" =>
             /\ \A i \in 1..Len(fills) : fills[i].k < k
             /\ \A i \in 1..Len(stats) : stats[i].timestamp < timestamp)

\* the run has returned for low equity with a position open and fills of earlier ticks
C21_ReturnedLowEquity ==
    /\ pc = "return_low_equity"
    /\ fills # <<>>
    /\ stats # <<>>
    /\ long_psize # 0
    /\ equity * 5 < cfg.starting_balance

\* C22: while a run has not been liquidated, the sizes of the orders of a side's close
\* ladder add up to no more than the side's position, the long position is never negative
\* and the short position never positive; a close that is matched is no larger than the
\* position it closes, so the fill carries the order's own qty and the position moves by
\* exactly that qty.
C22_CloseClampNotNeeded ==
    /\ [](LET RECURSIVE Total(_)
              Total(ladder) ==
                  IF ladder = <<>> THEN 0 ELSE Abs(ladder[1][1]) + Total(Tail(ladder))
          IN  /\ long_psize >= 0
              /\ short_psize <= 0
              /\ pc # "return_bankruptcy" =>
                    /\ Total(long_closes) <= long_psize
                    /\ Total(short_closes) <= -short_psize)
    /\ [][/\ (pc = "long_closes" /\ fills' # fills) =>
                /\ -long_closes[1][1] <= long_psize
                /\ fills'[Len(fills')].qty = long_closes[1][1]
                /\ long_psize' = long_psize + long_closes[1][1]
          /\ (pc = "short_closes" /\ fills' # fills) =>
                /\ short_closes[1][1] <= -short_psize
                /\ fills'[Len(fills')].qty = short_closes[1][1]
                /\ short_psize' = short_psize + short_closes[1][1]]_vars

\* a long close has been matched for part of the position, and the order at the head of
\* the ladder is for all that is left
C22_RestOfPositionOnLadder ==
    /\ pc = "long_closes"
    /\ fills # <<>>
    /\ fills[Len(fills)].type = "long_nclose"
    /\ fills[Len(fills)].k = k
    /\ long_psize > 0
    /\ long_closes # <<>>
    /\ -long_closes[1][1] = long_psize

\* C23: a step that appends a fill other than a bankruptcy fill leaves bkr_price equal to
\* calc_bankruptcy_price of the balance and of the long and the short position as they are
\* after the fill.
C23_BkrPriceOfWholeAccount ==
    [][(fills' # fills /\ pc' # "return_bankruptcy") =>
          bkr_price' = calc_bankruptcy_price(balance', long_psize', long_pprice', short_psize',
                                             short_pprice', cfg.inverse, cfg.c_mult)]_vars

\* C24: of the re-entry orders calc_long_entry_grid returns, every order but the last is
\* tagged 'long_primary_rentry'; the last is tagged 'long_primary_rentry' or
\* 'long_secondary_rentry', and the latter only with secondary_allocation > 0.05 (it is the
\* tag of the last node of the grid, which the walk may skip, merge into the order before
\* it, or not reach).
C24_SecondaryTagOnlyLast ==
    LET n == Len(plan.orders)
    IN  (/\ plan.op = "calc_long_entry_grid"
         /\ n > 0
         /\ plan.orders[1][3] \in {"long_primary_rentry", "long_secondary_rentry"}) =>
            /\ \A i \in 1..(n - 1) : plan.orders[i][3] = "long_primary_rentry"
            /\ plan.orders[n][3] \in {"long_primary_rentry", "long_secondary_rentry"}
            /\ plan.orders[n][3] = "long_secondary_rentry" => cfg.secondary_allocation[1] > 50

\* C24 as stated: the last re-entry order calc_long_entry_grid returns is tagged
\* 'long_secondary_rentry' if secondary_allocation > 0.05 and 'long_primary_rentry'
\* otherwise, and every earlier one 'long_primary_rentry'
C24_LastEmittedTaggedSecondary ==
    LET n == Len(plan.orders)
    IN  (/\ plan.op = "calc_long_entry_grid"
         /\ n > 0
         /\ plan.orders[1][3] \in {"long_primary_rentry", "long_secondary_rentry"}) =>
            /\ \A i \in 1..(n - 1) : plan.orders[i][3] = "long_primary_rentry"
            /\ plan.orders[n][3] = IF cfg.secondary_allocation[1] > 50
                                   THEN "long_secondary_rentry" ELSE "long_primary_rentry"

\* with a secondary allocation, a primary re-entry is followed by the secondary one
C24_PrimaryThenSecondary ==
    /\ plan.op = "calc_long_entry_grid"
    /\ cfg.secondary_allocation[1] > 50
    /\ Len(plan.orders) = 2
    /\ plan.orders[1][3] = "long_primary_rentry"
    /\ plan.orders[2][3] = "long_secondary_rentry"
    /\ plan.orders[2][2] < plan.orders[1][2]

\* C25: the ladder walk of both entry planners stops on the exposure limit: every
\* re-entry order that calc_long_entry_grid or calc_short_entry_grid returns is the order
\* of a walked node of the approximated grid such that neither it nor a walked node
\* before it has a wallet exposure above wallet_exposure_limit * 1.01
C25_WalkStopsAtLimit ==
    /\ (/\ plan.op = "calc_long_entry_grid"
        /\ plan.orders # <<>>
        /\ plan.orders[1][3] \in {"long_primary_rentry", "long_secondary_rentry"})
       => LET grid == approximate_long_grid(
                          plan.balance, plan.psize, plan.pprice, cfg.inverse, cfg.qty_step,
                          cfg.price_step, cfg.min_qty, cfg.min_cost, cfg.c_mult,
                          cfg.grid_span[1], cfg.wallet_exposure_limit[1],
                          cfg.max_n_entry_orders[1], cfg.initial_qty_pct[1],
                          cfg.eprice_pprice_diff[1], cfg.secondary_allocation[1],
                          cfg.secondary_pprice_diff[1], cfg.eprice_exp_base[1])
              Walked(i) == ~(\/ grid[i][3] * 100 < plan.psize * 105
                             \/ grid[i][2] * 10000 > plan.pprice * 9995)
          IN  \A j \in 1..Len(plan.orders) : \E i \in 1..Len(grid) :
                  /\ Walked(i)
                  /\ plan.orders[j][2] = Min(plan.quote, grid[i][2])
                  /\ \A n \in 1..i :
                        Walked(n) => grid[n][5] * 100 <= cfg.wallet_exposure_limit[1] * 101
    /\ (/\ plan.op = "calc_short_entry_grid"
        /\ plan.orders # <<>>
        /\ plan.orders[1][3] \in {"short_primary_rentry", "short_secondary_rentry"})
       => LET grid == approximate_short_grid(
                          plan.balance, -plan.psize, plan.pprice, cfg.inverse, cfg.qty_step,
                          cfg.price_step, cfg.min_qty, cfg.min_cost, cfg.c_mult,
                          cfg.grid_span[2], cfg.wallet_exposure_limit[2],
                          cfg.max_n_entry_orders[2], cfg.initial_qty_pct[2],
                          cfg.eprice_pprice_diff[2], cfg.secondary_allocation[2],
                          cfg.secondary_pprice_diff[2], cfg.eprice_exp_base[2])
              Walked(i) == ~(\/ grid[i][3] * 100 > (-plan.psize) * 105
                             \/ grid[i][2] * 10000 < plan.pprice * 9995)
          IN  \A j \in 1..Len(plan.orders) : \E i \in 1..Len(grid) :
                  /\ Walked(i)
                  /\ plan.orders[j][2] = Max(plan.quote, grid[i][2])
                  /\ \A n \in 1..i :
                        Walked(n) => grid[n][5] * 100 <= cfg.wallet_exposure_limit[2] * 101

\* C26: every fill but a bankruptcy fill records the balance before it plus its fee and
\* its pnl, where the fee is -qty_to_cost(qty, price) * maker_fee <= 0 and the pnl is 0
\* for an entry and the PnL of the closed quantity between the side's position price
\* before the fill and the order's price for a close; so as long as no liquidation has
\* happened the balance is starting_balance plus the pnl and fee of all fills
C26_BalanceBookkeeping ==
    /\ [][fills' # fills /\ pc' # "return_bankruptcy" =>
            LET f == fills'[Len(fills')]
                is_long == f.type \in {"long_ientry", "long_primary_rentry",
                                       "long_secondary_rentry", "long_unstuck_entry",
                                       "long_nclose", "long_unstuck_close"}
                is_close == f.type \in {"long_nclose", "long_unstuck_close",
                                        "short_nclose", "short_unstuck_close"}
            IN  /\ Len(fills') = Len(fills) + 1
                /\ f.fee_paid = -FMul(qty_to_cost(f.qty, f.price, cfg.inverse, cfg.c_mult),
                                 cfg.maker_fee)
                /\ f.fee_paid <= 0
                /\ f.pnl = IF ~is_close THEN 0
                           ELSE IF is_long
                           THEN calc_long_pnl(long_pprice, f.price, f.qty, cfg.inverse,
                                              cfg.c_mult)
                           ELSE calc_short_pnl(short_pprice, f.price, f.qty, cfg.inverse,
                                               cfg.c_mult)
                /\ f.balance = balance + f.fee_paid + f.pnl
                /\ balance' = f.balance
       ]_vars
    /\ [](LET RECURSIVE Sum(_)
              Sum(fs) == IF fs = <<>> THEN 0 ELSE fs[1].pnl + fs[1].fee_paid + Sum(Tail(fs))
          IN  pc # "return_bankruptcy" => balance = cfg.starting_balance + Sum(fills))

\* a run whose last fill closed a long position with a profit, after the entry's fee
C26_ClosedWithProfit ==
    /\ Len(fills) >= 2
    /\ fills[Len(fills)].type = "long_nclose"
    /\ fills[Len(fills)].pnl > 0
    /\ fills[Len(fills)].fee_paid < 0
    /\ fills[1].pnl = 0
    /\ fills[1].fee_paid < 0
    /\ balance = fills[Len(fills)].balance
    /\ balance # cfg.starting_balance

\* C27: every fill record, a bankruptcy fill included, carries the executed quantity: the
\* position size it records is the side's size before the fill plus the record's qty,
\* rounded to qty_step
C27_FillCarriesQty ==
    [][\A i \in (Len(fills) + 1)..Len(fills') :
          LET f == fills'[i]
              before == IF f.type \in {"long_ientry", "long_primary_rentry",
                                       "long_secondary_rentry", "long_unstuck_entry",
                                       "long_nclose", "long_unstuck_close",
                                       "long_bankruptcy"}
                        THEN long_psize ELSE short_psize
          IN  f.psize = round_(before + f.qty, cfg.qty_step)]_vars

\* C28: a disabled side never trades: with do_long false the long ladders are always the
\* single empty order, no fill is a long fill and the long position stays empty, and
\* likewise for the short side with do_short false
C28_DisabledSideIdle ==
    [](/\ ~cfg.do_long =>
            /\ long_entries = <<EmptyOrder>>
            /\ long_closes = <<EmptyOrder>>
            /\ long_psize = 0
            /\ \A i \in 1..Len(fills) :
                  fills[i].type \notin {"long_ientry", "long_primary_rentry",
                                        "long_secondary_rentry", "long_unstuck_entry",
                                        "long_nclose", "long_unstuck_close",
                                        "long_bankruptcy"}
       /\ ~cfg.do_short =>
            /\ short_entries = <<EmptyOrder>>
            /\ short_closes = <<EmptyOrder>>
            /\ short_psize = 0
            /\ \A i \in 1..Len(fills) :
                  fills[i].type \notin {"short_ientry", "short_primary_rentry",
                                        "short_secondary_rentry", "short_unstuck_entry",
                                        "short_nclose", "short_unstuck_close",
                                        "short_bankruptcy"})
    /\ [][(~cfg.do_long => pc \notin {"long_entries", "long_closes"} \/ fills' = fills)
          /\ (~cfg.do_short => pc \notin {"short_entries", "short_closes"} \/ fills' = fills)
         ]_vars

\* a run without the long side that sold short, at a tick below the starting price
C28_OtherSideTraded ==
    /\ ~cfg.do_long
    /\ pc = "long_closes"
    /\ price < StartPrice
    /\ fills # <<>>
    /\ short_psize < 0

(***************************************************************************)
(* The weighting solver on its own: its arguments are drawn once, and each *)
(* step takes it from one val = eval_(guess) to the next, or to its        *)
(* return.  plan.seen keeps the (guess, val) pairs the search loop has     *)
(* examined.                                                               *)
(***************************************************************************)
InitWeighting ==
    /\ \E c \in {HedgeConfig, LeveragedLongConfig, UnstuckConfig,
                 [UnstuckConfig EXCEPT !.min_cost = 1000,
                                       !.max_n_entry_orders = <<2, 2>>]} : InitRun(c)
    /\ \E is_long \in BOOLEAN, bal \in {100000, 99000, 30000},
          initial_entry_price \in {13000, 19000, 20000, 21000} :
          LET side == IF is_long THEN 1 ELSE 2
          IN  plan = [op |-> "weighting",
                      a |-> WeightingArgs(
                                is_long, bal, initial_entry_price, cfg.inverse, cfg.qty_step,
                                cfg.price_step, cfg.min_qty, cfg.min_cost, cfg.c_mult,
                                cfg.grid_span[side], cfg.wallet_exposure_limit[side],
                                cfg.max_n_entry_orders[side], cfg.initial_qty_pct[side],
                                cfg.eprice_pprice_diff[side], cfg.eprice_exp_base[side]),
                      st |-> WeightingStart,
                      seen |-> <<>>]

\* one val = eval_(guess) and the statements up to the next one, or up to the return
WeightingStep ==
    /\ plan.op = "weighting"
    /\ ~plan.st.done
    /\ LET st == WeightingNext(plan.st, WeightingEval(plan.a, plan.st.guess),
                               plan.a.wallet_exposure_limit)
       IN  plan' = [plan EXCEPT
                      !.st = st,
                      !.seen = IF st.stage = "loop"
                               THEN Append(@, <<plan.st.guess, st.val>>) ELSE @]
    /\ UNCHANGED simv

NextWeighting == WeightingStep

\* The function runs on until it returns: weak fairness of WeightingStep, written with
\* the step's guard in the place of ENABLED <<WeightingStep>>_vars (the step is enabled
\* exactly as long as the solver has not returned, and it always changes the solver's
\* state)
SpecWeighting ==
    /\ InitWeighting
    /\ [][NextWeighting]_vars
    /\ ([]<>(plan.st.done) \/ []<><<WeightingStep>>_vars)

\* C29: find_eprice_pprice_diff_wallet_exposure_weighting always terminates.  Its search
\* loop runs at most max_n_iters iterations and goes on only while no guess it examined
\* has a relative exposure error below error_tolerance; when the loop returns, it returns
\* the examined guess with the smallest relative error, and it has either found an error
\* below error_tolerance, or used up max_n_iters iterations, or seen its guess stall.
C29_WeightingTerminates ==
    /\ <>(plan.st.done)
    /\ [](LET wel == plan.a.wallet_exposure_limit
              Err(val) == FDiv(Abs(val - wel), wel)
              st == plan.st
          IN  /\ st.i <= max_n_iters
              /\ Len(plan.seen) = st.i
              /\ ~st.done => \A j \in 1..Len(plan.seen) :
                                 Err(plan.seen[j][2]) >= error_tolerance
              /\ (st.done /\ st.stage = "loop") =>
                    /\ \E j \in 1..Len(plan.seen) :
                          /\ plan.seen[j][1] = st.best[2]
                          /\ plan.seen[j][2] = st.best[3]
                          /\ Err(plan.seen[j][2]) = st.best[1]
                    /\ \A j \in 1..Len(plan.seen) : st.best[1] <= Err(plan.seen[j][2])
                    /\ \A j \in 1..(Len(plan.seen) - 1) :
                          Err(plan.seen[j][2]) >= error_tolerance
                    /\ \/ st.best[1] < error_tolerance
                       \/ st.i = max_n_iters
                       \/ FDiv(Abs(st.old_guess - st.guess), st.guess)
                              < FMul(error_tolerance, 100))

\* the search returned at its last allowed iteration, with a best guess that is not the
\* last one it examined and whose error is not below the tolerance
C29_GaveUpAtMaxIters ==
    /\ plan.op = "weighting"
    /\ plan.st.done
    /\ plan.st.i = max_n_iters
    /\ plan.st.best[1] >= error_tolerance
    /\ plan.st.best[2] # plan.seen[Len(plan.seen)][1]

(***************************************************************************)
(* calc_samples on its own.  plan holds the function's arguments and       *)
(* locals: ticks are <<timestamp, qty, price>>, samples are <<timestamp,   *)
(* qty, price>>, and i and k index ticks and samples from 0 as in the      *)
(* source.                                                                 *)
(***************************************************************************)
\* the longest tick array passed
MaxSampleTicks == 3

\* timestamp // sample_size_ms * sample_size_ms
SampleTime(t, sample_size_ms) == (t \div sample_size_ms) * sample_size_ms

\* lines 79-88: the state before `while True`, for ticks with non-decreasing timestamps
\* given by the first timestamp and the time passed before each later tick
InitSamples ==
    /\ InitRun(HedgeConfig)
    /\ \E n \in 1..MaxSampleTicks, first \in {1700, 2000}, sample_size_ms \in {1000} :
       \E steps \in [1..n -> {0, 400, 2500} \X {1, 2} \X {10, 11}] :
          LET RECURSIVE TimeOf(_)
              TimeOf(j) == IF j = 1 THEN first ELSE TimeOf(j - 1) + steps[j][1]
              ticks == [j \in 1..n |-> <<TimeOf(j), steps[j][2], steps[j][3]>>]
              start == SampleTime(ticks[1][1], sample_size_ms)
              stop == SampleTime(ticks[n][1], sample_size_ms) + sample_size_ms
          IN  plan = [op |-> "calc_samples", ticks |-> ticks,
                      sample_size_ms |-> sample_size_ms,
                      samples |-> [j \in 1..((stop - start) \div sample_size_ms) |->
                                      <<start + (j - 1) * sample_size_ms, 0, 0>>],
                      ts |-> start, i |-> 0, k |-> 0, done |-> FALSE]

\* a mutation of SamplesAdvance: the next sample keeps the price it was created with
SamplesAdvanceUnpriced ==
    /\ plan.op = "calc_samples"
    /\ ~plan.done
    /\ plan.ts # plan.samples[plan.k + 1][1]
    /\ plan' = [plan EXCEPT !.k = plan.k + 1, !.done = plan.k + 1 >= Len(plan.samples)]
    /\ UNCHANGED simv

\* lines 90-96: the tick belongs to the current sample
SamplesAccumulate ==
    /\ plan.op = "calc_samples"
    /\ ~plan.done
    /\ plan.ts = plan.samples[plan.k + 1][1]
    /\ plan' = [plan EXCEPT
                  !.samples[plan.k + 1] =
                      <<@[1], @[2] + plan.ticks[plan.i + 1][2], plan.ticks[plan.i + 1][3]>>,
                  !.i = plan.i + 1,
                  !.done = plan.i + 1 >= Len(plan.ticks),
                  !.ts = IF plan.i + 1 >= Len(plan.ticks) THEN @
                         ELSE SampleTime(plan.ticks[plan.i + 2][1], plan.sample_size_ms)]
    /\ UNCHANGED simv

\* lines 97-101: the tick belongs to a later sample, which starts with the price of the
\* current one
SamplesAdvance ==
    /\ plan.op = "calc_samples"
    /\ ~plan.done
    /\ plan.ts # plan.samples[plan.k + 1][1]
    /\ plan' = [plan EXCEPT
                  !.k = plan.k + 1,
                  !.done = plan.k + 1 >= Len(plan.samples),
                  !.samples = IF plan.k + 1 >= Len(plan.samples) THEN @
                              ELSE [@ EXCEPT ![plan.k + 2] =
                                        <<@[1], @[2], plan.samples[plan.k + 1][3]>>]]
    /\ UNCHANGED simv

NextSamples ==
    \/ SamplesAccumulate
    \/ SamplesAdvance

\* the function runs on until it returns
SpecSamples ==
    /\ InitSamples
    /\ [][NextSamples]_vars
    /\ WF_vars(NextSamples)

\* C30: for ticks with non-decreasing timestamps calc_samples terminates, and it returns
\* one row for every multiple of sample_size_ms from the first tick's bucket to the last
\* tick's; a row's qty is the sum of the qty of the ticks of its bucket and its price the
\* price of the last of them, or, with no tick in the bucket, qty 0 and the price of the
\* row before; the qty of all rows adds up to the qty of all ticks
C30_SamplesOfTicks ==
    /\ <>(plan.done)
    /\ [](plan.done =>
            LET ticks == plan.ticks
                samples == plan.samples
                step == plan.sample_size_ms
                In(j) == {t \in 1..Len(ticks) :
                             /\ samples[j][1] <= ticks[t][1]
                             /\ ticks[t][1] < samples[j][1] + step}
                RECURSIVE Sum(_, _)
                Sum(s, col) == IF s = <<>> THEN 0 ELSE s[1][col] + Sum(Tail(s), col)
                RECURSIVE SumIn(_)
                SumIn(set) == IF set = {} THEN 0
                              ELSE LET t == CHOOSE t \in set : TRUE
                                   IN  ticks[t][2] + SumIn(set \ {t})
                Latest(set) == CHOOSE t \in set : \A u \in set : u <= t
            IN  /\ samples[1][1] <= ticks[1][1]
                /\ ticks[1][1] < samples[1][1] + step
                /\ In(Len(samples)) # {}
                /\ Len(ticks) \in In(Len(samples))
                /\ \A j \in 1..Len(samples) :
                      /\ samples[j][1] % step = 0
                      /\ j > 1 => samples[j][1] = samples[j - 1][1] + step
                      /\ samples[j][2] = SumIn(In(j))
                      /\ In(j) # {} => samples[j][3] = ticks[Latest(In(j))][3]
                      /\ In(j) = {} => j > 1 /\ samples[j][2] = 0
                                             /\ samples[j][3] = samples[j - 1][3]
                /\ Sum(samples, 2) = Sum(ticks, 2))

\* a returned array with a bucket of two ticks of different prices, then an empty bucket
C30_TwoTicksThenGap ==
    /\ plan.op = "calc_samples"
    /\ plan.done
    /\ Len(plan.samples) >= 3
    /\ plan.samples[1][2] = plan.ticks[1][2] + plan.ticks[2][2]
    /\ plan.ticks[1][3] # plan.ticks[2][3]
    /\ plan.samples[1][3] = plan.ticks[2][3]
    /\ plan.samples[2][2] = 0
    /\ plan.samples[2][3] = plan.samples[1][3]
====
